---- MODULE Spec2Model ----
(***************************************************************************)
(* A model of polirag: the vector stores (linear scan, HNSW, the RagSystem *)
(* index), the ingestion orchestrator (full sync, incremental sync, local  *)
(* rescan) and the background tasks that share the embedder and the index  *)
(* lock.                                                                   *)
(*                                                                         *)
(* Floats are modelled by integers: an embedding is a pair of integers     *)
(* with an integral Euclidean norm, and a similarity is the cosine in      *)
(* hundredths (0.3 is 30).                                                 *)
(***************************************************************************)
EXTENDS Integers, Sequences, FiniteSets, TLC

VARIABLES
    backend,    \* which store the process was constructed with
    linDocs,    \* LinearVectorStore.index.documents
    linDisk,    \* the file at LinearVectorStore.storage_path
    hDocs,      \* HnswVectorStore.documents : internal id -> Document
    hIdMap,     \* HnswVectorStore.id_map    : external id -> internal id
    hNextId,    \* HnswVectorStore.next_id
    hGraph,     \* the points inserted into the HNSW graph, in insertion order
    hDisk,      \* the .data file and the dumped graph
    ragDocs,    \* RagSystem.db.documents
    ragDisk,    \* the file at RagSystem.storage_path
    obs,        \* the last store operation and what it returned (observer)
    sync,       \* the running sync: its kind and the position of its loops
    hist,       \* what the syncs did so far (observer)
    task,       \* the background tasks: where each is in its function
    lock,       \* the holder of the RagSystem.db mutex
    inflight,   \* the tasks whose inference closure runs on the blocking pool
    seen,       \* what the searches saw of the index (observer)
    ui,         \* TuiApp: the screen and the busy flags
    chan,       \* the mpsc channels of run_app: the messages queued in each
    prod,       \* the tasks that send on the channels: where each is
    tui,        \* run_app: whether its loop runs, and the chat messages
    acct,       \* what was sent, dropped and done late (observer)
    scrape,     \* scrape_subject_content: the loop, the tabs, what it wrote
    sse,        \* chat_stream: the chunks received, the buffer, the events
    snip,       \* extract_relevant_snippet: its arguments and what it returned
    pr,         \* process_resources: the directory, the loops, what it wrote
    cfg,        \* Config: the config files, the environment, the calls made
    ld,         \* a store under construction: the files it finds, what new returned
    em,         \* EmbeddingModel::embed inside add_document: the chunks, the inferences
    re,         \* reembed_all run alone: the snapshot, the loop, the progress calls
    ss,         \* search_snippets: the index, the arguments, the entries returned
    hl          \* HnswVectorStore::clear step by step: its position, the locks it holds

storeVars == <<backend, linDocs, linDisk, hDocs, hIdMap, hNextId, hGraph, hDisk, obs>>
ragVars == <<ragDocs, ragDisk>>
syncVars == <<sync, hist>>
concVars == <<task, lock, inflight, seen, ui>>
chanVars == <<chan, prod, tui, acct>>
fnVars == <<snip, pr, cfg, ld, em, re, ss, hl>>
extVars == <<chanVars, scrape, sse, fnVars>>
vars == <<storeVars, ragVars, syncVars, concVars, extVars>>

----------------------------------------------------------------------------
(* Bounds of the model *)

\* HnswVectorStore.add_document is enabled while the graph holds fewer points
MaxGraph == 2
\* largest top_k a query is made with
MaxTopK == 2

----------------------------------------------------------------------------
(* Data.  A string the program builds with format! is the sequence of its  *)
(* pieces: the id "S1/x.pdf#0" is <<"S1", "/", "x.pdf", "#", "0">>.        *)

Users == {"user", "other"}
Embeddings == {<<1, 0>>, <<0, 1>>, <<3, 4>>}

Meta(type, filename) == {<<"type", type>>, <<"filename", filename>>}

Doc(id, content, embedding, metadata, user_id) ==
    [id |-> id, content |-> content, embedding |-> embedding,
     metadata |-> metadata, user_id |-> user_id]

\* the documents handed to the store-level add_document
DocPool ==
    { Doc(<<"a">>, <<"alpha">>, <<1, 0>>, Meta("pdf", "a.pdf"), "user"),
      Doc(<<"a">>, <<"beta">>, <<0, 1>>, {<<"type", "subject">>}, "other"),
      Doc(<<"b">>, <<"beta">>, <<3, 4>>, {}, "user"),
      Doc(<<"b">>, <<"alpha">>, <<1, 0>>, Meta("pdf", "b.pdf"), "other") }

PoolIds == {d.id : d \in DocPool}

Min(a, b) == IF a <= b THEN a ELSE b

SeqToSet(s) == {s[i] : i \in 1..Len(s)}

IdsOf(docs) == {docs[i].id : i \in 1..Len(docs)}

\* no two records of a document list share an id
UniqueIds(docs) == \A i, j \in 1..Len(docs) : docs[i].id = docs[j].id => i = j

----------------------------------------------------------------------------
(* cosine_similarity, in hundredths *)

Dot(a, b) == a[1] * b[1] + a[2] * b[2]

ISqrt(n) == CHOOSE r \in 0..n : r * r <= n /\ (r + 1) * (r + 1) > n

Norm(a) == ISqrt(Dot(a, a))

cosine_similarity(a, b) ==
    IF Norm(a) = 0 \/ Norm(b) = 0 THEN 0
    ELSE (100 * Dot(a, b)) \div (Norm(a) * Norm(b))

----------------------------------------------------------------------------
(* Vec helpers: retain, stable sort_by descending score, truncate *)

Retain(docs, id) == SelectSeq(docs, LAMBDA d : d.id # id)

RECURSIVE InsertDesc(_, _)
InsertDesc(s, x) ==
    IF s = <<>> THEN <<x>>
    ELSE IF Head(s).score >= x.score THEN <<Head(s)>> \o InsertDesc(Tail(s), x)
    ELSE <<x>> \o s

RECURSIVE SortDesc(_)
SortDesc(s) ==
    IF s = <<>> THEN <<>>
    ELSE InsertDesc(SortDesc(SubSeq(s, 1, Len(s) - 1)), s[Len(s)])

Truncate(s, k) == SubSeq(s, 1, Min(k, Len(s)))

Scored(docs, q) ==
    [i \in 1..Len(docs) |-> [doc |-> docs[i], score |-> cosine_similarity(q, docs[i].embedding)]]

----------------------------------------------------------------------------
(* bincode: a value is written as a sequence of tagged tokens *)

TInt(n) == <<"int", n>>
TStr(s) == <<"str", s>>

RECURSIVE EncodeSet(_)
EncodeSet(S) ==
    IF S = {} THEN <<>>
    ELSE LET kv == CHOOSE x \in S : TRUE
         IN <<TStr(kv[1]), TStr(kv[2])>> \o EncodeSet(S \ {kv})

EncodeDoc(d) ==
    <<TStr(d.id), TStr(d.content), TInt(Len(d.embedding))>>
    \o [i \in 1..Len(d.embedding) |-> TInt(d.embedding[i])]
    \o <<TInt(Cardinality(d.metadata))>> \o EncodeSet(d.metadata)
    \o <<TStr(d.user_id)>>

RECURSIVE EncodeDocs(_)
EncodeDocs(docs) ==
    IF docs = <<>> THEN <<>> ELSE EncodeDoc(Head(docs)) \o EncodeDocs(Tail(docs))

\* serialize a LinearIndex / VectorIndex { documents: Vec<Document> }
EncodeIndex(docs) == <<TInt(Len(docs))>> \o EncodeDocs(docs)

IsInt(b, p) == p <= Len(b) /\ b[p][1] = "int"
IsStr(b, p) == p <= Len(b) /\ b[p][1] = "str"

\* the k key/value pairs that start at position p
RECURSIVE DecodePairs(_, _, _)
DecodePairs(b, p, k) ==
    IF k = 0 THEN [ok |-> TRUE, val |-> {}, next |-> p]
    ELSE IF ~(IsStr(b, p) /\ IsStr(b, p + 1)) THEN [ok |-> FALSE, val |-> {}, next |-> p]
    ELSE LET rest == DecodePairs(b, p + 2, k - 1)
         IN [ok |-> rest.ok, val |-> {<<b[p][2], b[p + 1][2]>>} \cup rest.val, next |-> rest.next]

\* the k numbers that start at position p
RECURSIVE DecodeInts(_, _, _)
DecodeInts(b, p, k) ==
    IF k = 0 THEN [ok |-> TRUE, val |-> <<>>, next |-> p]
    ELSE IF ~IsInt(b, p) THEN [ok |-> FALSE, val |-> <<>>, next |-> p]
    ELSE LET rest == DecodeInts(b, p + 1, k - 1)
         IN [ok |-> rest.ok, val |-> <<b[p][2]>> \o rest.val, next |-> rest.next]

DecodeDoc(b, p) ==
    IF ~(IsStr(b, p) /\ IsStr(b, p + 1) /\ IsInt(b, p + 2))
    THEN [ok |-> FALSE, val |-> <<>>, next |-> p]
    ELSE LET emb == DecodeInts(b, p + 3, b[p + 2][2])
         IN IF ~(emb.ok /\ IsInt(b, emb.next))
            THEN [ok |-> FALSE, val |-> <<>>, next |-> p]
            ELSE LET meta == DecodePairs(b, emb.next + 1, b[emb.next][2])
                 IN IF ~(meta.ok /\ IsStr(b, meta.next))
                    THEN [ok |-> FALSE, val |-> <<>>, next |-> p]
                    ELSE [ok |-> TRUE,
                          val |-> Doc(b[p][2], b[p + 1][2], emb.val, meta.val, b[meta.next][2]),
                          next |-> meta.next + 1]

RECURSIVE DecodeDocs(_, _, _)
DecodeDocs(b, p, k) ==
    IF k = 0 THEN [ok |-> TRUE, val |-> <<>>, next |-> p]
    ELSE LET d == DecodeDoc(b, p)
         IN IF ~d.ok THEN [ok |-> FALSE, val |-> <<>>, next |-> p]
            ELSE LET rest == DecodeDocs(b, d.next, k - 1)
                 IN [ok |-> rest.ok, val |-> <<d.val>> \o rest.val, next |-> rest.next]

\* deserialize a LinearIndex / VectorIndex
DecodeIndex(b) ==
    IF ~IsInt(b, 1) THEN [ok |-> FALSE, val |-> <<>>, next |-> 1]
    ELSE DecodeDocs(b, 2, b[1][2])

NoFile == [exists |-> FALSE, bytes |-> <<>>]
File(b) == [exists |-> TRUE, bytes |-> b]

\* File::open + bincode::deserialize_from(reader).unwrap_or_default()
LoadIndexOrDefault(disk) ==
    IF disk.exists
    THEN LET r == DecodeIndex(disk.bytes) IN IF r.ok THEN r.val ELSE <<>>
    ELSE <<>>

----------------------------------------------------------------------------
(* The observer: the last operation, its arguments and what it returned *)

Obs(op, id, had, before, user, res, pre) ==
    [op |-> op, id |-> id, had |-> had, before |-> before, user |-> user,
     res |-> res, pre |-> pre]

NoObs == Obs("none", <<>>, FALSE, 0, "", <<>>, <<>>)

\* a Vec<Document> as a multiset
BagOfSeq(s) == [d \in SeqToSet(s) |-> Cardinality({i \in 1..Len(s) : s[i] = d})]

\* the values of a HashMap<usize, Document> as a multiset
BagOfMap(f) == [d \in {f[k] : k \in DOMAIN f} |-> Cardinality({k \in DOMAIN f : f[k] = d})]

----------------------------------------------------------------------------
(* LinearVectorStore (rag/store.rs) *)

\* a plausible slip: push without the retain
LinAddedNoRetain(docs, doc) == Append(docs, doc)

\* add_document: retain(|d| d.id != doc.id); push(doc)
LinAdded(docs, doc) == Append(Retain(docs, doc.id), doc)

LinContains(docs, id) == \E i \in 1..Len(docs) : docs[i].id = id

LinCount == Len(linDocs)

\* a plausible slip: the user_id filter left out
LinSearchAnyUser(docs, q, user_id, top_k, min_threshold) ==
    LET scores == SortDesc(SelectSeq(Scored(docs, q), LAMBDA h : h.score > min_threshold))
    IN IF top_k > 0 /\ Len(scores) > top_k THEN Truncate(scores, top_k) ELSE scores

\* search: filter by user_id, score, filter score > min_threshold, sort descending,
\* truncate when top_k > 0
LinSearch(docs, q, user_id, top_k, min_threshold) ==
    LET mine == SelectSeq(docs, LAMBDA d : d.user_id = user_id)
        scores == SortDesc(SelectSeq(Scored(mine, q), LAMBDA h : h.score > min_threshold))
    IN IF top_k > 0 /\ Len(scores) > top_k THEN Truncate(scores, top_k) ELSE scores

\* a plausible slip: the index is written without its last document
LinSavedDropLast(docs) ==
    File(EncodeIndex(IF docs = <<>> THEN docs ELSE SubSeq(docs, 1, Len(docs) - 1)))

\* save: File::create + bincode::serialize_into(writer, &self.index)
LinSaved(docs) == File(EncodeIndex(docs))

LinAddDocument(doc) ==
    /\ backend = "linear"
    /\ linDocs' = LinAdded(linDocs, doc)
    /\ linDisk' = LinSaved(linDocs')
    /\ obs' = Obs("add", doc.id, LinContains(linDocs, doc.id), LinCount, "", <<>>, <<>>)
    /\ UNCHANGED <<backend, hDocs, hIdMap, hNextId, hGraph, hDisk, ragVars, syncVars, concVars, extVars>>

LinRemoveDocument(id) ==
    /\ backend = "linear"
    /\ linDocs' = Retain(linDocs, id)
    /\ linDisk' = LinSaved(linDocs')
    /\ obs' = Obs("remove", id, LinContains(linDocs, id), LinCount, "", <<>>, <<>>)
    /\ UNCHANGED <<backend, hDocs, hIdMap, hNextId, hGraph, hDisk, ragVars, syncVars, concVars, extVars>>

LinClear ==
    /\ backend = "linear"
    /\ linDocs' = <<>>
    /\ linDisk' = LinSaved(linDocs')
    /\ obs' = Obs("clear", <<>>, FALSE, LinCount, "", <<>>, <<>>)
    /\ UNCHANGED <<backend, hDocs, hIdMap, hNextId, hGraph, hDisk, ragVars, syncVars, concVars, extVars>>

LinSave ==
    /\ backend = "linear"
    /\ linDisk' = LinSaved(linDocs)
    /\ obs' = Obs("save", <<>>, FALSE, LinCount, "", <<>>, BagOfSeq(linDocs))
    /\ UNCHANGED <<backend, linDocs, hDocs, hIdMap, hNextId, hGraph, hDisk, ragVars, syncVars, concVars, extVars>>

\* LinearVectorStore::new on the path of this store (a restart); obs.had says
\* whether it follows a save directly
LinNew ==
    /\ backend = "linear"
    /\ linDocs' = LoadIndexOrDefault(linDisk)
    /\ obs' = Obs("load", <<>>, obs.op = "save", LinCount, "", <<>>,
                  IF obs.op = "save" THEN obs.pre ELSE <<>>)
    /\ UNCHANGED <<backend, linDisk, hDocs, hIdMap, hNextId, hGraph, hDisk, ragVars, syncVars, concVars, extVars>>

LinSearchAction(q, user_id, top_k, min_threshold) ==
    /\ backend = "linear"
    /\ obs' = Obs("search", <<>>, FALSE, LinCount, user_id,
                  LinSearch(linDocs, q, user_id, top_k, min_threshold), <<>>)
    /\ UNCHANGED <<backend, linDocs, linDisk, hDocs, hIdMap, hNextId, hGraph, hDisk, ragVars, syncVars, concVars, extVars>>

----------------------------------------------------------------------------
(* HnswVectorStore (rag/hnsw_store.rs) *)

Point(v, d_id) == [v |-> v, d_id |-> d_id]

Without(f, k) == [x \in DOMAIN f \ {k} |-> f[x]]

\* a plausible slip: a fresh internal id on every insert
HnswInternalIdFresh(idmap, next, id) == next

\* add_document: re-use the internal id of a known external id, else take next_id
HnswInternalId(idmap, next, id) == IF id \in DOMAIN idmap THEN idmap[id] ELSE next

HnswNextAfterAdd(idmap, next, id) == IF id \in DOMAIN idmap THEN next ELSE next + 1

HnswHas(docs, id) == \E n \in DOMAIN docs : docs[n].id = id

HnswCount == Cardinality(DOMAIN hDocs)

\* the distance DistCosine reports, in hundredths
DistCosine(a, b) == 100 - cosine_similarity(a, b)

RECURSIVE InsertAsc(_, _)
InsertAsc(s, x) ==
    IF s = <<>> THEN <<x>>
    ELSE IF Head(s).distance <= x.distance THEN <<Head(s)>> \o InsertAsc(Tail(s), x)
    ELSE <<x>> \o s

RECURSIVE SortAsc(_)
SortAsc(s) ==
    IF s = <<>> THEN <<>>
    ELSE InsertAsc(SortAsc(SubSeq(s, 1, Len(s) - 1)), s[Len(s)])

\* hnsw.search(query, knbn, ef): the knbn points nearest to the query
Neighbours(graph, q, knbn) ==
    Truncate(SortAsc([i \in 1..Len(graph) |->
                         [d_id |-> graph[i].d_id, distance |-> DistCosine(q, graph[i].v)]]),
             knbn)

\* a plausible slip: the user_id filter left out
HnswSearchAnyUser(graph, docs, q, user_id, top_k, min_threshold) ==
    LET nb == Neighbours(graph, q, top_k)
        known == SelectSeq(nb, LAMBDA n : n.d_id \in DOMAIN docs)
        hits == [i \in 1..Len(known) |->
                    [doc |-> docs[known[i].d_id], score |-> 100 - known[i].distance]]
        results == SortDesc(SelectSeq(hits, LAMBDA h : h.score >= min_threshold))
    IN IF top_k > 0 /\ Len(results) > top_k THEN Truncate(results, top_k) ELSE results

\* search: the neighbours whose payload exists, belongs to user_id and has
\* similarity = 1 - distance >= min_threshold, sorted descending, truncated
HnswSearch(graph, docs, q, user_id, top_k, min_threshold) ==
    LET nb == Neighbours(graph, q, top_k)
        known == SelectSeq(nb, LAMBDA n : n.d_id \in DOMAIN docs)
        hits == [i \in 1..Len(known) |->
                    [doc |-> docs[known[i].d_id], score |-> 100 - known[i].distance]]
        mine == SelectSeq(hits, LAMBDA h : h.doc.user_id = user_id)
        results == SortDesc(SelectSeq(mine, LAMBDA h : h.score >= min_threshold))
    IN IF top_k > 0 /\ Len(results) > top_k THEN Truncate(results, top_k) ELSE results

\* serialize StoredData { documents: HashMap<usize, Document>, next_id }
RECURSIVE EncodeMap(_)
EncodeMap(f) ==
    IF DOMAIN f = {} THEN <<>>
    ELSE LET k == CHOOSE x \in DOMAIN f : TRUE
         IN <<TInt(k)>> \o EncodeDoc(f[k]) \o EncodeMap(Without(f, k))

EncodeStored(docs, next) ==
    <<TInt(Cardinality(DOMAIN docs))>> \o EncodeMap(docs) \o <<TInt(next)>>

RECURSIVE DecodeMap(_, _, _)
DecodeMap(b, p, k) ==
    IF k = 0 THEN [ok |-> TRUE, val |-> <<>>, next |-> p]
    ELSE IF ~IsInt(b, p) THEN [ok |-> FALSE, val |-> <<>>, next |-> p]
    ELSE LET d == DecodeDoc(b, p + 1)
         IN IF ~d.ok THEN [ok |-> FALSE, val |-> <<>>, next |-> p]
            ELSE LET rest == DecodeMap(b, d.next, k - 1)
                 IN [ok |-> rest.ok, val |-> (b[p][2] :> d.val) @@ rest.val, next |-> rest.next]

\* deserialize StoredData
DecodeStored(b) ==
    IF ~IsInt(b, 1) THEN [ok |-> FALSE, documents |-> <<>>, next_id |-> 0]
    ELSE LET m == DecodeMap(b, 2, b[1][2])
         IN IF ~(m.ok /\ IsInt(b, m.next))
            THEN [ok |-> FALSE, documents |-> <<>>, next_id |-> 0]
            ELSE [ok |-> TRUE, documents |-> m.val, next_id |-> b[m.next][2]]

NoHnswFiles == [exists |-> FALSE, data |-> <<>>, graph |-> <<>>]

\* a plausible slip: next_id is not written
HnswSavedNoNextId(graph, docs, next) ==
    [exists |-> TRUE, data |-> EncodeStored(docs, 0), graph |-> graph]

\* save: hnsw.file_dump + bincode::serialize_into(writer, &StoredData)
HnswSaved(graph, docs, next) ==
    [exists |-> TRUE, data |-> EncodeStored(docs, next), graph |-> graph]

\* new: the reverse map rebuilt from the loaded documents
RebuildIdMap(docs) ==
    [e \in {docs[n].id : n \in DOMAIN docs} |-> CHOOSE n \in DOMAIN docs : docs[n].id = e]

\* what the memory of a store looks like to a later comparison
HnswSnapshot == [documents |-> BagOfMap(hDocs), id_map |-> hIdMap, next_id |-> hNextId]

HnswAddDocument(doc) ==
    /\ backend = "hnsw"
    /\ Len(hGraph) < MaxGraph
    /\ LET internal_id == HnswInternalId(hIdMap, hNextId, doc.id)
       IN /\ hNextId' = HnswNextAfterAdd(hIdMap, hNextId, doc.id)
          /\ hGraph' = Append(hGraph, Point(doc.embedding, internal_id))
          /\ hDocs' = (internal_id :> doc) @@ hDocs
          /\ hIdMap' = (doc.id :> internal_id) @@ hIdMap
    /\ obs' = Obs("add", doc.id, HnswHas(hDocs, doc.id), HnswCount, "", <<>>, <<>>)
    /\ UNCHANGED <<backend, linDocs, linDisk, hDisk, ragVars, syncVars, concVars, extVars>>

\* remove_document: the payload and its id mapping go, the graph point stays
HnswRemoveDocument(id) ==
    /\ backend = "hnsw"
    /\ hDocs' = IF id \in DOMAIN hIdMap THEN Without(hDocs, hIdMap[id]) ELSE hDocs
    /\ hIdMap' = Without(hIdMap, id)
    /\ obs' = Obs("remove", id, HnswHas(hDocs, id), HnswCount, "", <<>>, <<>>)
    /\ UNCHANGED <<backend, linDocs, linDisk, hNextId, hGraph, hDisk, ragVars, syncVars, concVars, extVars>>

HnswClear ==
    /\ backend = "hnsw"
    /\ hGraph' = <<>>
    /\ hDocs' = <<>>
    /\ hIdMap' = <<>>
    /\ hNextId' = 0
    /\ hDisk' = HnswSaved(hGraph', hDocs', hNextId')
    /\ obs' = Obs("clear", <<>>, FALSE, HnswCount, "", <<>>, <<>>)
    /\ UNCHANGED <<backend, linDocs, linDisk, ragVars, syncVars, concVars, extVars>>

HnswSave ==
    /\ backend = "hnsw"
    /\ hDisk' = HnswSaved(hGraph, hDocs, hNextId)
    /\ obs' = Obs("save", <<>>, FALSE, HnswCount, "", <<>>, HnswSnapshot)
    /\ UNCHANGED <<backend, linDocs, linDisk, hDocs, hIdMap, hNextId, hGraph, ragVars, syncVars, concVars, extVars>>

\* HnswVectorStore::new on the path of this store (a restart)
HnswNew ==
    /\ backend = "hnsw"
    /\ LET data == DecodeStored(hDisk.data)
       IN IF hDisk.exists
          THEN /\ data.ok
               /\ hGraph' = hDisk.graph
               /\ hDocs' = data.documents
               /\ hNextId' = data.next_id
               /\ hIdMap' = RebuildIdMap(data.documents)
          ELSE /\ hGraph' = <<>>
               /\ hDocs' = <<>>
               /\ hNextId' = 0
               /\ hIdMap' = <<>>
    /\ obs' = Obs("load", <<>>, obs.op = "save", HnswCount, "", <<>>,
                  IF obs.op = "save" THEN obs.pre ELSE <<>>)
    /\ UNCHANGED <<backend, linDocs, linDisk, hDisk, ragVars, syncVars, concVars, extVars>>

HnswSearchAction(q, user_id, top_k, min_threshold) ==
    /\ backend = "hnsw"
    /\ obs' = Obs("search", <<>>, FALSE, HnswCount, user_id,
                  HnswSearch(hGraph, hDocs, q, user_id, top_k, min_threshold), <<>>)
    /\ UNCHANGED <<backend, linDocs, linDisk, hDocs, hIdMap, hNextId, hGraph, hDisk, ragVars, syncVars, concVars, extVars>>

----------------------------------------------------------------------------
(* EmbeddingModel (rag/embeddings.rs) *)

\* the pooled sequence embedding the model gives a text
inference(text) ==
    CASE text = <<"alpha">> -> <<1, 0>>
      [] text = <<"beta">> -> <<0, 1>>
      [] OTHER -> <<3, 4>>

\* embed of a text within MAX_CHUNK_CHARS: one chunk, one inference, averaged
\* over itself and normalised, which keeps its direction
embed(text) == inference(text)

----------------------------------------------------------------------------
(* RagSystem (rag/mod.rs) *)

\* a plausible slip: push without the retain
RagAddedNoRetain(docs, doc) == Append(docs, doc)

\* add_document, under the lock: retain(|d| d.id != id); push(doc)
RagAdded(docs, doc) == Append(Retain(docs, doc.id), doc)

\* save_internal: File::create + bincode::serialize_into(writer, idx)
RagSaved(docs) == File(EncodeIndex(docs))

\* contains: whether the index holds a document with this id
RagContains(docs, id) == \E i \in 1..Len(docs) : docs[i].id = id

\* remove_document: the documents with this id go
RagRemoved(docs, id) == Retain(docs, id)

\* a plausible slip: the documents are left in place
ClearedNot(docs) == docs

\* clear: db.documents.clear()
Cleared(docs) == <<>>

RagCount == Len(ragDocs)

\* a plausible slip: the user_id filter left out
RagSearchAnyUser(docs, q, user_id, top_k) == Truncate(SortDesc(Scored(docs, q)), top_k)

\* search, after the query was embedded: filter by user_id, score, sort, truncate(top_k)
RagSearch(docs, q, user_id, top_k) ==
    Truncate(SortDesc(Scored(SelectSeq(docs, LAMBDA d : d.user_id = user_id), q)), top_k)

\* search_snippets, the hits the snippets are cut from: filter by user_id, score,
\* retain score > 0.3, sort, truncate when longer than top_k
RagSnippetHits(docs, q, user_id, top_k) ==
    LET mine == SelectSeq(docs, LAMBDA d : d.user_id = user_id)
        scores == SortDesc(SelectSeq(Scored(mine, q), LAMBDA h : h.score > 30))
    IN IF Len(scores) > top_k THEN Truncate(scores, top_k) ELSE scores

RagAddDocument(d, embedded) ==
    /\ backend = "rag"
    /\ IF embedded
       THEN /\ ragDocs' = RagAdded(ragDocs, Doc(d.id, d.content, embed(d.content), d.metadata, d.user_id))
            /\ ragDisk' = RagSaved(ragDocs')
            /\ obs' = Obs("add", d.id, RagContains(ragDocs, d.id), RagCount, "", <<>>, <<>>)
       ELSE /\ UNCHANGED ragVars
            /\ obs' = Obs("add_failed", d.id, RagContains(ragDocs, d.id), RagCount, "", <<>>, <<>>)
    /\ UNCHANGED <<backend, linDocs, linDisk, hDocs, hIdMap, hNextId, hGraph, hDisk, syncVars, concVars, extVars>>

RagRemoveDocument(id) ==
    /\ backend = "rag"
    /\ ragDocs' = RagRemoved(ragDocs, id)
    /\ ragDisk' = RagSaved(ragDocs')
    /\ obs' = Obs("remove", id, RagContains(ragDocs, id), RagCount, "", <<>>, <<>>)
    /\ UNCHANGED <<backend, linDocs, linDisk, hDocs, hIdMap, hNextId, hGraph, hDisk, syncVars, concVars, extVars>>

RagClear ==
    /\ backend = "rag"
    /\ ragDocs' = Cleared(ragDocs)
    /\ ragDisk' = RagSaved(ragDocs')
    /\ obs' = Obs("clear", <<>>, FALSE, RagCount, "", <<>>, <<>>)
    /\ UNCHANGED <<backend, linDocs, linDisk, hDocs, hIdMap, hNextId, hGraph, hDisk, syncVars, concVars, extVars>>

\* RagSystem::new on the path of this index (a restart)
RagNew ==
    /\ backend = "rag"
    /\ ragDocs' = LoadIndexOrDefault(ragDisk)
    /\ obs' = Obs("load", <<>>, FALSE, RagCount, "", <<>>, <<>>)
    /\ UNCHANGED <<backend, linDocs, linDisk, hDocs, hIdMap, hNextId, hGraph, hDisk, ragDisk, syncVars, concVars, extVars>>

RagSearchAction(query, user_id, top_k, embedded) ==
    /\ backend = "rag"
    /\ obs' = Obs(IF embedded THEN "search" ELSE "search_failed", <<>>, FALSE, RagCount, user_id,
                  IF embedded THEN RagSearch(ragDocs, embed(query), user_id, top_k) ELSE <<>>, <<>>)
    /\ UNCHANGED <<backend, linDocs, linDisk, hDocs, hIdMap, hNextId, hGraph, hDisk, ragVars, syncVars, concVars, extVars>>

RagSearchSnippetsAction(query, user_id, top_k, embedded) ==
    /\ backend = "rag"
    /\ obs' = Obs(IF embedded THEN "search" ELSE "search_failed", <<>>, FALSE, RagCount, user_id,
                  IF embedded THEN RagSnippetHits(ragDocs, embed(query), user_id, top_k) ELSE <<>>, <<>>)
    /\ UNCHANGED <<backend, linDocs, linDisk, hDocs, hIdMap, hNextId, hGraph, hDisk, ragVars, syncVars, concVars, extVars>>

----------------------------------------------------------------------------
(* The stores, one operation at a time *)

Queries == {<<"alpha">>, <<"beta">>}
QueryVecs == {<<1, 0>>, <<3, 4>>}
Thresholds == {0, 30}

IdleSync == [kind |-> "none", pc |-> "idle", s |-> 0, p |-> 0, c |-> 0]
NoHist == [runs |-> 0, prev |-> [kind |-> "none", ok |-> FALSE], pdfAdds |-> 0,
           startCount |-> 0, startIds |-> {}, chunked |-> {}, embedErr |-> FALSE]
SyncIdle == sync = IdleSync /\ hist = NoHist
TaskIds == {"sync", "reembed", "chat"}
IdleTask == [pc |-> "idle", i |-> 0, work |-> <<>>]
NoSeen == [reads |-> FALSE, midAdd |-> FALSE]
UiStart == [mode |-> "Menu", is_thinking |-> FALSE, sync_running |-> FALSE,
            reembed_running |-> FALSE, is_connected |-> TRUE, models_loading |-> FALSE]
ConcIdle ==
    /\ task = [t \in TaskIds |-> IdleTask]
    /\ lock = "none"
    /\ inflight = {}
    /\ seen = NoSeen
    /\ ui = UiStart

IdleProd == [pc |-> "idle", i |-> 0, work |-> <<>>]
NoFin == [done |-> FALSE, content |-> <<>>, deltas |-> <<>>]
NoAcct == [dropped |-> FALSE, passed |-> {}, late |-> {},
           chats |-> 0, fetches |-> 0, slot |-> 0, deltas |-> <<>>, fin |-> NoFin]
\* The tasks that send on a channel: the three above and the model-list fetch.
ProdIds == TaskIds \cup {"models"}
\* TuiApp::new: the chat starts with the system message.
SystemMessage == [role |-> "system", content |-> <<"You are a helpful assistant">>]
TuiStart == [open |-> TRUE, messages |-> <<SystemMessage>>, done |-> FALSE]
ChanIdle ==
    /\ chan = [sync |-> <<>>, reembed |-> <<>>, llm |-> <<>>]
    /\ prod = [t \in ProdIds |-> IdleProd]
    /\ tui = TuiStart
    /\ acct = NoAcct
\* No scrape runs: no browser, no tab, nothing written, nothing returned.
ScrapeIdle == [pc |-> "idle", k |-> 0, creds |-> FALSE, tabs |-> {}, page |-> "none",
               reauths |-> 0, acc |-> "none", summary |-> <<>>, results |-> <<>>,
               invalid |-> {}]
\* No chat_stream runs.
SseIdle == [pc |-> "idle", chunks |-> <<>>, next |-> 0, buffer |-> <<>>, out |-> <<>>,
            doneSeen |-> FALSE, late |-> <<>>, seen |-> <<>>]
\* extract_relevant_snippet was not called.
SnipIdle == [pc |-> "idle", content |-> <<>>, query_words |-> <<>>, out |-> <<>>]
PrIdle == [pc |-> "idle"]
CfgIdle == [pc |-> "idle"]
LdIdle == [pc |-> "idle"]
EmIdle == [pc |-> "idle"]
ReIdle == [pc |-> "idle"]
SsIdle == [pc |-> "idle"]
HlIdle == [pc |-> "idle", held |-> {}, done |-> FALSE]
FnIdle == snip = SnipIdle /\ pr = PrIdle /\ cfg = CfgIdle /\ ld = LdIdle /\ em = EmIdle /\ re = ReIdle /\ ss = SsIdle /\ hl = HlIdle
ExtIdle == ChanIdle /\ scrape = ScrapeIdle /\ sse = SseIdle /\ FnIdle

StoreEmpty ==
    /\ linDocs = <<>> /\ linDisk = NoFile
    /\ hDocs = <<>> /\ hIdMap = <<>> /\ hNextId = 0 /\ hGraph = <<>> /\ hDisk = NoHnswFiles
    /\ obs = NoObs

Init ==
    /\ backend \in {"linear", "hnsw", "rag"}
    /\ StoreEmpty
    /\ ragDocs = <<>> /\ ragDisk = NoFile
    /\ SyncIdle
    /\ ConcIdle
    /\ ExtIdle

Next ==
    \/ \E d \in DocPool : LinAddDocument(d)
    \/ \E id \in PoolIds : LinRemoveDocument(id)
    \/ LinClear
    \/ LinSave
    \/ LinNew
    \/ \E q \in QueryVecs, u \in Users, k \in 0..MaxTopK, t \in Thresholds : LinSearchAction(q, u, k, t)
    \/ \E d \in DocPool : HnswAddDocument(d)
    \/ \E id \in PoolIds : HnswRemoveDocument(id)
    \/ HnswClear
    \/ HnswSave
    \/ HnswNew
    \/ \E q \in QueryVecs, u \in Users, k \in 0..MaxTopK, t \in Thresholds : HnswSearchAction(q, u, k, t)
    \/ \E d \in DocPool, e \in BOOLEAN : RagAddDocument(d, e)
    \/ \E id \in PoolIds : RagRemoveDocument(id)
    \/ RagClear
    \/ RagNew
    \/ \E q \in Queries, u \in Users, k \in 0..MaxTopK, e \in BOOLEAN : RagSearchAction(q, u, k, e)
    \/ \E q \in Queries, u \in Users, k \in 0..MaxTopK, e \in BOOLEAN : RagSearchSnippetsAction(q, u, k, e)

Spec == Init /\ [][Next]_vars

----------------------------------------------------------------------------
(* Properties of the stores *)

StoreCount ==
    CASE backend = "linear" -> LinCount
      [] backend = "hnsw" -> HnswCount
      [] OTHER -> RagCount

\* C1: after any sequence of add_document, remove and clear on a store (linear,
\* HNSW, the RagSystem index) no two stored documents share an id, and a
\* successful add grows count() by 0 when the id was present and by 1 otherwise.
C1_UniqueIdsAndCount ==
    /\ UniqueIds(linDocs)
    /\ UniqueIds(ragDocs)
    /\ \A m, n \in DOMAIN hDocs : hDocs[m].id = hDocs[n].id => m = n
    /\ obs.op = "add" => StoreCount = obs.before + (IF obs.had THEN 0 ELSE 1)

\* an add has replaced the record of an id while another document is stored
C1_Witness == obs.op = "add" /\ obs.had /\ StoreCount = 2

\* C2: every document a search returns (store-level search of both backends,
\* RagSystem::search, the hits of RagSystem::search_snippets) has the user_id
\* the query was made with.
C2_SearchOnlyQueriedUser ==
    obs.op = "search" => \A i \in 1..Len(obs.res) : obs.res[i].doc.user_id = obs.user

StoredUsers ==
    CASE backend = "linear" -> {linDocs[i].user_id : i \in 1..Len(linDocs)}
      [] backend = "hnsw" -> {hDocs[n].user_id : n \in DOMAIN hDocs}
      [] OTHER -> {ragDocs[i].user_id : i \in 1..Len(ragDocs)}

\* a search has returned a document while the store also holds one of another user
C2_Witness == obs.op = "search" /\ Len(obs.res) >= 1 /\ StoredUsers = Users

MaxRuns == 3

Pdf(rel, filename, chunks) == [rel |-> rel, filename |-> filename, chunks |-> chunks]

Subject(id, name, summary, urlLine, pdfs) ==
    [id |-> id, name |-> name, url |-> id, summary |-> summary,
     urlLine |-> urlLine, pdfs |-> pdfs]

Subjects ==
    << Subject("https://poliformat.upv.es/portal/site/S0", "S0", FALSE, "", <<>>),
       Subject("https://poliformat.upv.es/portal/site/S1", "S1", TRUE, "",
               << Pdf("resources/x.pdf", "x.pdf", 2) >>),
       Subject("https://poliformat.upv.es/portal/site/S2", "S2", TRUE, "",
               << Pdf("resources/extracted/z/y.pdf", "y.pdf", 1),
                  Pdf("resources/extracted/z/y.pdf", "y.pdf", 1) >>) >>

\* scrape_single_subject: the directory is named after the subject.
DirName(sub) == sub.name

\* scan_local_data: the subject id is the last segment of the "URL:" line of
\* summary.md when there is one, the directory name otherwise.
LocalSubjectId(sub) ==
    IF sub.summary /\ sub.urlLine # "" THEN sub.urlLine ELSE DirName(sub)

DocId(subject_id, rel_path) == <<subject_id, "/", rel_path>>

ChunkId(doc_id, i) == doc_id \o <<"#", ToString(i)>>

SentinelIdBase(doc_id) == doc_id

SentinelId(doc_id) == ChunkId(doc_id, 0)

\* TextSplitter::new(1000).chunks(text), as the texts of the pieces.
Chunks(pdf) == [i \in 1..pdf.chunks |-> ToString(i - 1)]

\* The number of add_document calls one PDF takes: one per chunk, and one
\* at "#0" when the splitter yields nothing.
ChunkCalls(pdf) == IF Len(Chunks(pdf)) = 0 THEN 1 ELSE Len(Chunks(pdf))

ChunkText(pdf, course, i) ==
    IF Len(Chunks(pdf)) = 0
    THEN <<"### DOC: ", pdf.filename, "\nSubject: ", course, "\n\n">>
    ELSE <<"### DOC: ", pdf.filename, " (Part ", ToString(i + 1), "/",
           ToString(Len(Chunks(pdf))), ")\nCourse: ", course, "\n\n",
           Chunks(pdf)[i + 1]>>

ChunkDoc(pdf, doc_id, course, i) ==
    Doc(ChunkId(doc_id, i), ChunkText(pdf, course, i),
        embed(ChunkText(pdf, course, i)), Meta("pdf", pdf.rel), "user")

SummaryText(sub) == <<"Subject: ", sub.name, "\nURL: ", sub.url, "\n\n", "summary">>

RunSyncSummaryDoc(sub) ==
    Doc(<<sub.id>>, SummaryText(sub), embed(SummaryText(sub)),
        {<<"type", "subject">>, <<"name", sub.name>>}, "user")

FullSyncSummaryDoc(sub) ==
    Doc(<<sub.id>>, SummaryText(sub), embed(SummaryText(sub)),
        {<<"type", "subject">>}, "user")

FullSyncPdfText(sub, pdf) == <<"Subject: ", sub.name, "\nFile: ", pdf.rel, "\n\n", "text">>

FullSyncPdfDoc(sub, pdf) ==
    Doc(DocId(sub.id, pdf.rel), FullSyncPdfText(sub, pdf),
        embed(FullSyncPdfText(sub, pdf)), Meta("pdf", pdf.rel), "user")

----------------------------------------------------------------------------
(* The three indexing runs.  One action is one iteration of a loop of the  *)
(* code, taken up to and including its add_document call; embedded = FALSE *)
(* is the call whose embed fails, which the ? operator turns into the      *)
(* run's error.  hist observes the runs and takes no part in them.         *)

SyncStarted(kind, pc) == [kind |-> kind, pc |-> pc, s |-> 1, p |-> 1, c |-> 0]

HistStarted ==
    [hist EXCEPT !.runs = @ + 1, !.pdfAdds = 0, !.startCount = Len(ragDocs),
                 !.startIds = IdsOf(ragDocs), !.chunked = {}, !.embedErr = FALSE]

\* `rag.add_document(..).await?` when the embedding fails: the error leaves
\* the run through the `?`.
AddDocumentErr ==
    /\ sync' = [sync EXCEPT !.pc = "failed"]
    /\ hist' = [hist EXCEPT !.embedErr = TRUE]
    /\ UNCHANGED ragVars

IndexAdd(doc) ==
    /\ ragDocs' = RagAdded(ragDocs, doc)
    /\ ragDisk' = RagSaved(ragDocs')

otherVars == <<storeVars, concVars, extVars>>

(* tui::run_sync_with_logging, the full sync *)

FullSyncBegin(scraped) ==
    /\ sync = IdleSync
    /\ hist.runs < MaxRuns
    /\ ragDocs' = Cleared(ragDocs)
    /\ ragDisk' = RagSaved(ragDocs')
    /\ sync' = SyncStarted("full", IF scraped THEN "subject" ELSE "failed")
    /\ hist' = HistStarted
    /\ UNCHANGED otherVars

FullSyncSubject(embedded) ==
    /\ sync.kind = "full" /\ sync.pc = "subject" /\ sync.s <= Len(Subjects)
    /\ LET sub == Subjects[sync.s] IN
       IF ~sub.summary
       THEN sync' = [sync EXCEPT !.s = @ + 1] /\ UNCHANGED <<ragVars, hist>>
       ELSE IF embedded
            THEN /\ IndexAdd(FullSyncSummaryDoc(sub))
                 /\ sync' = [sync EXCEPT !.pc = "pdf", !.p = 1]
                 /\ UNCHANGED hist
            ELSE AddDocumentErr
    /\ UNCHANGED otherVars

FullSyncPdf(embedded) ==
    /\ sync.kind = "full" /\ sync.pc = "pdf"
    /\ LET sub == Subjects[sync.s] IN
       IF sync.p > Len(sub.pdfs)
       THEN /\ sync' = [sync EXCEPT !.pc = "subject", !.s = @ + 1]
            /\ UNCHANGED <<ragVars, hist>>
       ELSE IF embedded
            THEN /\ IndexAdd(FullSyncPdfDoc(sub, sub.pdfs[sync.p]))
                 /\ sync' = [sync EXCEPT !.p = @ + 1]
                 /\ hist' = [hist EXCEPT !.pdfAdds = @ + 1]
            ELSE AddDocumentErr
    /\ UNCHANGED otherVars

FullSyncEnd ==
    /\ sync.kind = "full" /\ sync.pc = "subject" /\ sync.s > Len(Subjects)
    /\ sync' = [sync EXCEPT !.pc = "done"]
    /\ UNCHANGED <<ragVars, hist, otherVars>>

(* ops::run_sync, the incremental sync *)

RunSyncBegin(scraped) ==
    /\ sync = IdleSync
    /\ hist.runs < MaxRuns
    /\ sync' = SyncStarted("incremental", IF scraped THEN "subject" ELSE "failed")
    /\ hist' = HistStarted
    /\ UNCHANGED <<ragVars, otherVars>>

RunSyncSubject(embedded) ==
    /\ sync.kind = "incremental" /\ sync.pc = "subject" /\ sync.s <= Len(Subjects)
    /\ LET sub == Subjects[sync.s] IN
       IF ~sub.summary
       THEN sync' = [sync EXCEPT !.s = @ + 1] /\ UNCHANGED <<ragVars, hist>>
       ELSE IF RagContains(ragDocs, <<sub.id>>)
            THEN sync' = [sync EXCEPT !.pc = "pdf", !.p = 1] /\ UNCHANGED <<ragVars, hist>>
            ELSE IF embedded
                 THEN /\ IndexAdd(RunSyncSummaryDoc(sub))
                      /\ sync' = [sync EXCEPT !.pc = "pdf", !.p = 1]
                      /\ UNCHANGED hist
                 ELSE AddDocumentErr
    /\ UNCHANGED otherVars

RunSyncPdf ==
    /\ sync.kind = "incremental" /\ sync.pc = "pdf"
    /\ LET sub == Subjects[sync.s]
           doc_id == DocId(sub.id, sub.pdfs[sync.p].rel)
       IN IF sync.p > Len(sub.pdfs)
          THEN /\ sync' = [sync EXCEPT !.pc = "subject", !.s = @ + 1]
               /\ ragDisk' = RagSaved(ragDocs)
               /\ UNCHANGED ragDocs
          ELSE /\ IF RagContains(ragDocs, SentinelId(doc_id))
                  THEN sync' = [sync EXCEPT !.p = @ + 1]
                  ELSE sync' = [sync EXCEPT !.pc = "chunk", !.c = 0]
               /\ UNCHANGED ragVars
    /\ UNCHANGED <<hist, otherVars>>

RunSyncChunk(embedded) ==
    /\ sync.kind = "incremental" /\ sync.pc = "chunk"
    /\ LET sub == Subjects[sync.s]
           pdf == sub.pdfs[sync.p]
           doc_id == DocId(sub.id, pdf.rel)
       IN IF embedded
          THEN /\ IndexAdd(ChunkDoc(pdf, doc_id, sub.name, sync.c))
               /\ sync' = IF sync.c + 1 = ChunkCalls(pdf)
                          THEN [sync EXCEPT !.pc = "pdf", !.p = @ + 1]
                          ELSE [sync EXCEPT !.c = @ + 1]
               /\ hist' = [hist EXCEPT !.pdfAdds = @ + 1, !.chunked = @ \cup {doc_id}]
          ELSE AddDocumentErr
    /\ UNCHANGED otherVars

RunSyncEnd ==
    /\ sync.kind = "incremental" /\ sync.pc = "subject" /\ sync.s > Len(Subjects)
    /\ ragDisk' = RagSaved(ragDocs)
    /\ sync' = [sync EXCEPT !.pc = "done"]
    /\ UNCHANGED <<ragDocs, hist, otherVars>>

(* ops::scan_local_data, the local rescan *)

ScanLocalBegin ==
    /\ sync = IdleSync
    /\ hist.runs < MaxRuns
    /\ sync' = SyncStarted("rescan", "pdf")
    /\ hist' = HistStarted
    /\ UNCHANGED <<ragVars, otherVars>>

ScanLocalPdf ==
    /\ sync.kind = "rescan" /\ sync.pc = "pdf" /\ sync.s <= Len(Subjects)
    /\ LET sub == Subjects[sync.s]
           doc_id == DocId(LocalSubjectId(sub), sub.pdfs[sync.p].rel)
       IN IF sync.p > Len(sub.pdfs)
          THEN sync' = [sync EXCEPT !.s = @ + 1, !.p = 1] /\ UNCHANGED ragVars
          ELSE IF RagContains(ragDocs, SentinelId(doc_id))
               THEN sync' = [sync EXCEPT !.p = @ + 1] /\ UNCHANGED ragVars
               ELSE /\ sync' = [sync EXCEPT !.pc = "chunk", !.c = 0]
                    /\ IF RagContains(ragDocs, doc_id)
                       THEN /\ ragDocs' = RagRemoved(ragDocs, doc_id)
                            /\ ragDisk' = RagSaved(ragDocs')
                       ELSE UNCHANGED ragVars
    /\ UNCHANGED <<hist, otherVars>>

ScanLocalChunk(embedded) ==
    /\ sync.kind = "rescan" /\ sync.pc = "chunk"
    /\ LET sub == Subjects[sync.s]
           pdf == sub.pdfs[sync.p]
           doc_id == DocId(LocalSubjectId(sub), pdf.rel)
       IN IF embedded
          THEN /\ IndexAdd(ChunkDoc(pdf, doc_id, DirName(sub), sync.c))
               /\ sync' = IF sync.c + 1 = ChunkCalls(pdf)
                          THEN [sync EXCEPT !.pc = "pdf", !.p = @ + 1]
                          ELSE [sync EXCEPT !.c = @ + 1]
               /\ hist' = [hist EXCEPT !.pdfAdds = @ + 1, !.chunked = @ \cup {doc_id}]
          ELSE AddDocumentErr
    /\ UNCHANGED otherVars

ScanLocalEnd ==
    /\ sync.kind = "rescan" /\ sync.pc = "pdf" /\ sync.s > Len(Subjects)
    /\ IF hist.pdfAdds > 0 THEN ragDisk' = RagSaved(ragDocs) ELSE UNCHANGED ragDisk
    /\ sync' = [sync EXCEPT !.pc = "done"]
    /\ UNCHANGED <<ragDocs, hist, otherVars>>

\* The run returns: Ok(..) from "done", Err(..) from "failed".
SyncReturn ==
    /\ sync.pc \in {"done", "failed"}
    /\ hist' = [hist EXCEPT !.prev = [kind |-> sync.kind, ok |-> sync.pc = "done"]]
    /\ sync' = IdleSync
    /\ UNCHANGED <<ragVars, otherVars>>

\* An index written by an earlier version, which stored a PDF whole at its
\* base id.
LegacyDoc ==
    LET sub == Subjects[2]
        text == <<"Subject: ", sub.name, "\nFile: ", sub.pdfs[1].rel, "\n\n", "text">>
    IN Doc(DocId(LocalSubjectId(sub), sub.pdfs[1].rel), text, embed(text),
           Meta("pdf", sub.pdfs[1].rel), "user")

InitSync ==
    /\ backend = "rag"
    /\ StoreEmpty
    /\ ragDocs \in {<<>>, <<LegacyDoc>>}
    /\ ragDisk = (IF ragDocs = <<>> THEN NoFile ELSE RagSaved(ragDocs))
    /\ SyncIdle
    /\ ConcIdle
    /\ ExtIdle

NextSync ==
    \/ \E scraped \in BOOLEAN : FullSyncBegin(scraped)
    \/ \E embedded \in BOOLEAN : FullSyncSubject(embedded)
    \/ \E embedded \in BOOLEAN : FullSyncPdf(embedded)
    \/ FullSyncEnd
    \/ \E scraped \in BOOLEAN : RunSyncBegin(scraped)
    \/ \E embedded \in BOOLEAN : RunSyncSubject(embedded)
    \/ RunSyncPdf
    \/ \E embedded \in BOOLEAN : RunSyncChunk(embedded)
    \/ RunSyncEnd
    \/ ScanLocalBegin
    \/ ScanLocalPdf
    \/ \E embedded \in BOOLEAN : ScanLocalChunk(embedded)
    \/ ScanLocalEnd
    \/ SyncReturn

SpecSync == InitSync /\ [][NextSync]_vars

----------------------------------------------------------------------------
(* Properties of the indexing runs, checked under SpecSync *)

\* The base ids under which a PDF can be indexed in chunks, with the number
\* of its chunks: the id built by run_sync and the id built by scan_local_data.
ChunkedPdfs ==
    UNION { UNION { { [base |-> DocId(Subjects[s].id, Subjects[s].pdfs[p].rel),
                       n |-> ChunkCalls(Subjects[s].pdfs[p])],
                      [base |-> DocId(LocalSubjectId(Subjects[s]), Subjects[s].pdfs[p].rel),
                       n |-> ChunkCalls(Subjects[s].pdfs[p])] }
                    : p \in 1..Len(Subjects[s].pdfs) }
            : s \in 1..Len(Subjects) }

\* C3: a second incremental sync, or a second local rescan, that directly
\* follows a completed run of the same kind over the same files makes no
\* add_document call for a PDF chunk and leaves the document count as it was.
C3_SecondRunAddsNothing ==
    (sync.kind \in {"incremental", "rescan"} /\ hist.prev = [kind |-> sync.kind, ok |-> TRUE])
        => (hist.pdfAdds = 0 /\ RagCount = hist.startCount)

C3_Witness ==
    /\ sync.kind = "incremental" /\ sync.pc = "done"
    /\ hist.prev = [kind |-> "incremental", ok |-> TRUE]
    /\ RagCount = 5

\* C4: after a completed sync, every chunked PDF has all of its chunk ids in
\* the store or none of them, also when an earlier sync was aborted.
C4_ChunksAllOrNone ==
    sync.pc = "done" =>
        \A pdf \in ChunkedPdfs :
            \/ \A i \in 0..(pdf.n - 1) : RagContains(ragDocs, ChunkId(pdf.base, i))
            \/ \A i \in 0..(pdf.n - 1) : ~RagContains(ragDocs, ChunkId(pdf.base, i))

\* C5: once a run has indexed a PDF in chunks, no unchunked document is left
\* at its base id and chunk 0 is in the store.
C5_LegacyRemoved ==
    \A base \in hist.chunked :
        ~RagContains(ragDocs, base) /\ RagContains(ragDocs, ChunkId(base, 0))

\* What a full sync builds from the scraped files alone.
FullSyncDocs ==
    UNION { IF Subjects[s].summary
            THEN {FullSyncSummaryDoc(Subjects[s])}
                 \cup {FullSyncPdfDoc(Subjects[s], Subjects[s].pdfs[p]) : p \in 1..Len(Subjects[s].pdfs)}
            ELSE {}
            : s \in 1..Len(Subjects) }

\* C6: a completed full sync leaves exactly the documents built from the
\* scraped files, whatever the index held before.
C6_FullSyncFromScratch ==
    (sync.kind = "full" /\ sync.pc = "done")
        => (SeqToSet(ragDocs) = FullSyncDocs /\ RagCount = Cardinality(FullSyncDocs))

C6_Witness ==
    /\ sync.kind = "full" /\ sync.pc = "done"
    /\ \E id \in hist.startIds : ~RagContains(ragDocs, id)

\* C13: a sync in which the embedding of a document failed goes on with the
\* documents that follow; it does not end with an error.
C13_EmbedFailureSkipped == hist.embedErr => sync.pc # "failed"

----------------------------------------------------------------------------
(* The background tasks of the TUI and the RagSystem.db mutex.  A task is  *)
(* at a pc of the RagSystem method it runs; a step is what the method does *)
(* between two points where another thread can run.  The Menu, Chat,       *)
(* RagInfo and Sync screens are modelled; the tasks run on a               *)
(* multi-threaded runtime, so every interleaving of their steps is taken.  *)

\* a plausible slip: the mutex taken although another task holds it
LockFreeAlways(holder) == TRUE

\* Mutex::lock returns once no other thread holds the mutex
LockFree(holder) == holder = "none"

\* a plausible slip: the guard kept alive into the next loop iteration
GuardDroppedNot(t) == t

\* the MutexGuard goes out of scope
GuardDropped(t) == "none"

At(t, pc) == task[t].pc = pc

Goto(t, pc) == task' = [task EXCEPT ![t].pc = pc]

\* the pcs at which a task holds the mutex
Critical == {"clear", "snapshot", "retain", "push", "save", "read"}

InCritical(t) == task[t].pc \in Critical

\* what run_sync_with_logging passes to add_document, in order
FullSyncWork ==
    LET RECURSIVE PdfDocs(_, _)
        PdfDocs(sub, p) ==
            IF p > Len(sub.pdfs) THEN <<>>
            ELSE <<FullSyncPdfDoc(sub, sub.pdfs[p])>> \o PdfDocs(sub, p + 1)
        RECURSIVE From(_)
        From(s) ==
            IF s > Len(Subjects) THEN <<>>
            ELSE (IF Subjects[s].summary
                  THEN <<FullSyncSummaryDoc(Subjects[s])>> \o PdfDocs(Subjects[s], 1)
                  ELSE <<>>) \o From(s + 1)
    IN From(1)

\* Mutex::lock: taken at any of the pcs that wait for the mutex
Acquire(t, from, to) ==
    /\ At(t, from)
    /\ LockFree(lock)
    /\ lock' = t
    /\ Goto(t, to)
    /\ UNCHANGED seen

\* EmbeddingModel::embed up to the await of spawn_blocking, which hands the
\* inference closure to the blocking pool whatever already runs there
Dispatch(t) ==
    /\ At(t, "embed")
    /\ inflight' = inflight \cup {t}
    /\ Goto(t, "infer")

nonConcVars == <<storeVars, ragVars, syncVars, extVars>>

(* The sync task: run_sync_with_logging calls RagSystem::clear, then       *)
(* RagSystem::add_document for every document.                             *)

ClearLock ==
    /\ Acquire("sync", "clear_lock", "clear")
    /\ UNCHANGED <<inflight, ui, nonConcVars>>

ClearBody ==
    /\ At("sync", "clear")
    /\ ragDocs' = Cleared(ragDocs)
    /\ ragDisk' = RagSaved(ragDocs')
    /\ lock' = GuardDropped("sync")
    /\ task' = [task EXCEPT !["sync"] = [pc |-> "embed", i |-> 1, work |-> FullSyncWork]]
    /\ UNCHANGED <<inflight, seen, ui, storeVars, syncVars, extVars>>

AddEmbed ==
    /\ Dispatch("sync")
    /\ UNCHANGED <<lock, seen, ui, nonConcVars>>

AddInferred(ok) ==
    /\ At("sync", "infer")
    /\ inflight' = inflight \ {"sync"}
    /\ Goto("sync", IF ok THEN "lock" ELSE "failed")
    /\ UNCHANGED <<lock, seen, ui, nonConcVars>>

AddLock ==
    /\ Acquire("sync", "lock", "retain")
    /\ UNCHANGED <<inflight, ui, nonConcVars>>

AddRetain ==
    /\ At("sync", "retain")
    /\ ragDocs' = Retain(ragDocs, task["sync"].work[task["sync"].i].id)
    /\ Goto("sync", "push")
    /\ UNCHANGED <<ragDisk, lock, inflight, seen, ui, storeVars, syncVars, extVars>>

AddPush ==
    /\ At("sync", "push")
    /\ ragDocs' = Append(ragDocs, task["sync"].work[task["sync"].i])
    /\ Goto("sync", "save")
    /\ UNCHANGED <<ragDisk, lock, inflight, seen, ui, storeVars, syncVars, extVars>>

AddSave ==
    /\ At("sync", "save")
    /\ ragDisk' = RagSaved(ragDocs)
    /\ lock' = GuardDropped("sync")
    /\ task' = [task EXCEPT !["sync"].i = @ + 1,
                            !["sync"].pc = IF task["sync"].i = Len(task["sync"].work)
                                           THEN "done" ELSE "embed"]
    /\ UNCHANGED <<ragDocs, inflight, seen, ui, storeVars, syncVars, extVars>>

(* The re-embed task: RagSystem::reembed_all *)

ReembedSnapLock ==
    /\ Acquire("reembed", "snap_lock", "snapshot")
    /\ UNCHANGED <<inflight, ui, nonConcVars>>

ReembedSnapshot ==
    /\ At("reembed", "snapshot")
    /\ lock' = GuardDropped("reembed")
    /\ task' = [task EXCEPT !["reembed"] =
                   [pc |-> IF Len(ragDocs) = 0 THEN "save_lock" ELSE "embed",
                    i |-> 1, work |-> ragDocs]]
    /\ UNCHANGED <<inflight, seen, ui, nonConcVars>>

ReembedEmbed ==
    /\ Dispatch("reembed")
    /\ UNCHANGED <<lock, seen, ui, nonConcVars>>

ReembedInferred(ok) ==
    /\ At("reembed", "infer")
    /\ inflight' = inflight \ {"reembed"}
    /\ task' = IF ok
               THEN [task EXCEPT !["reembed"].pc = "lock"]
               ELSE [task EXCEPT !["reembed"].i = @ + 1,
                                 !["reembed"].pc = IF task["reembed"].i = Len(task["reembed"].work)
                                                   THEN "save_lock" ELSE "embed"]
    /\ UNCHANGED <<lock, seen, ui, nonConcVars>>

ReembedLock ==
    /\ Acquire("reembed", "lock", "retain")
    /\ UNCHANGED <<inflight, ui, nonConcVars>>

ReembedRetain ==
    /\ At("reembed", "retain")
    /\ ragDocs' = Retain(ragDocs, task["reembed"].work[task["reembed"].i].id)
    /\ Goto("reembed", "push")
    /\ UNCHANGED <<ragDisk, lock, inflight, seen, ui, storeVars, syncVars, extVars>>

ReembedPush ==
    /\ At("reembed", "push")
    /\ LET d == task["reembed"].work[task["reembed"].i]
       IN ragDocs' = Append(ragDocs, Doc(d.id, d.content, embed(d.content), d.metadata, d.user_id))
    /\ lock' = GuardDropped("reembed")
    /\ task' = [task EXCEPT !["reembed"].i = @ + 1,
                            !["reembed"].pc = IF task["reembed"].i = Len(task["reembed"].work)
                                              THEN "save_lock" ELSE "embed"]
    /\ UNCHANGED <<ragDisk, inflight, seen, ui, storeVars, syncVars, extVars>>

ReembedSaveLock ==
    /\ Acquire("reembed", "save_lock", "save")
    /\ UNCHANGED <<inflight, ui, nonConcVars>>

ReembedSave ==
    /\ At("reembed", "save")
    /\ ragDisk' = RagSaved(ragDocs)
    /\ lock' = GuardDropped("reembed")
    /\ Goto("reembed", "done")
    /\ UNCHANGED <<ragDocs, inflight, seen, ui, storeVars, syncVars, extVars>>

(* The chat task: RagSystem::search_snippets, then the LLM request *)

SearchEmbed ==
    /\ Dispatch("chat")
    /\ UNCHANGED <<lock, seen, ui, nonConcVars>>

SearchInferred(ok) ==
    /\ At("chat", "infer")
    /\ inflight' = inflight \ {"chat"}
    /\ Goto("chat", IF ok THEN "lock" ELSE "done")
    /\ UNCHANGED <<lock, seen, ui, nonConcVars>>

SearchLock ==
    /\ Acquire("chat", "lock", "read")
    /\ UNCHANGED <<inflight, ui, nonConcVars>>

SearchRead ==
    /\ At("chat", "read")
    /\ seen' = [seen EXCEPT !.reads = TRUE,
                            !.midAdd = @ \/ \E o \in TaskIds \ {"chat"} : At(o, "push")]
    /\ lock' = GuardDropped("chat")
    /\ Goto("chat", "done")
    /\ UNCHANGED <<inflight, ui, nonConcVars>>

(* The UI thread: the key handlers and the result channels of run_app *)

Spawned(t, pc) == [task EXCEPT ![t] = [pc |-> pc, i |-> 0, work |-> <<>>]]

\* handle_menu_input, Enter on "Chat"
MenuChat ==
    /\ ui.mode = "Menu"
    /\ ui' = [ui EXCEPT !.mode = "Chat"]
    /\ UNCHANGED <<task, lock, inflight, seen, nonConcVars>>

\* handle_menu_input, Enter on "Sync": the full sync is spawned
MenuSync ==
    /\ ui.mode = "Menu"
    /\ ui.is_connected
    /\ ui' = [ui EXCEPT !.mode = "Sync", !.sync_running = TRUE]
    /\ task' = Spawned("sync", "clear_lock")
    /\ UNCHANGED <<lock, inflight, seen, nonConcVars>>

\* handle_menu_input, Enter on "RAG Info": get_stats takes the mutex
MenuRagInfo ==
    /\ ui.mode = "Menu"
    /\ LockFree(lock)
    /\ ui' = [ui EXCEPT !.mode = "RagInfo"]
    /\ UNCHANGED <<task, lock, inflight, seen, nonConcVars>>

\* handle_chat_input, Esc
ChatEsc ==
    /\ ui.mode = "Chat"
    /\ ui' = [ui EXCEPT !.mode = "Menu"]
    /\ UNCHANGED <<task, lock, inflight, seen, nonConcVars>>

\* handle_chat_input, Enter on a non-empty input: the chat task is spawned
ChatEnter ==
    /\ ui.mode = "Chat"
    /\ ~ui.is_thinking
    /\ ui' = [ui EXCEPT !.is_thinking = TRUE]
    /\ task' = Spawned("chat", "embed")
    /\ UNCHANGED <<lock, inflight, seen, nonConcVars>>

\* handle_rag_info_input, Esc
RagInfoEsc ==
    /\ ui.mode = "RagInfo"
    /\ ~ui.reembed_running
    /\ ui' = [ui EXCEPT !.mode = "Menu"]
    /\ UNCHANGED <<task, lock, inflight, seen, nonConcVars>>

\* handle_rag_info_input, 'r': the re-embed task is spawned
RagInfoReembed ==
    /\ ui.mode = "RagInfo"
    /\ ~ui.reembed_running
    /\ ui' = [ui EXCEPT !.reembed_running = TRUE]
    /\ task' = Spawned("reembed", "snap_lock")
    /\ UNCHANGED <<lock, inflight, seen, nonConcVars>>

\* handle_sync_input, Esc
SyncEsc ==
    /\ ui.mode = "Sync"
    /\ ~ui.sync_running
    /\ ui' = [ui EXCEPT !.mode = "Menu"]
    /\ UNCHANGED <<task, lock, inflight, seen, nonConcVars>>

\* run_app, rx_sync: SyncResult::Success or SyncResult::Error
RecvSyncResult ==
    /\ task["sync"].pc \in {"done", "failed"}
    /\ ui' = [ui EXCEPT !.sync_running = FALSE]
    /\ task' = [task EXCEPT !["sync"] = IdleTask]
    /\ UNCHANGED <<lock, inflight, seen, nonConcVars>>

\* run_app, rx_reembed: ReembedResult::Complete, after which get_stats takes
\* the mutex
RecvReembedResult ==
    /\ At("reembed", "done")
    /\ LockFree(lock)
    /\ ui' = [ui EXCEPT !.reembed_running = FALSE]
    /\ task' = [task EXCEPT !["reembed"] = IdleTask]
    /\ UNCHANGED <<lock, inflight, seen, nonConcVars>>

\* run_app, rx_llm: LlmResult::StreamDone or LlmResult::Error of the chat task
RecvLlmResult ==
    /\ At("chat", "done")
    /\ ui' = [ui EXCEPT !.is_thinking = FALSE]
    /\ task' = [task EXCEPT !["chat"] = IdleTask]
    /\ UNCHANGED <<lock, inflight, seen, nonConcVars>>

\* An index left by an earlier run of the program.
EarlierIndex == <<FullSyncWork[1], FullSyncWork[2]>>

InitConc ==
    /\ backend = "rag"
    /\ StoreEmpty
    /\ ragDocs \in {<<>>, EarlierIndex}
    /\ ragDisk = (IF ragDocs = <<>> THEN NoFile ELSE RagSaved(ragDocs))
    /\ SyncIdle
    /\ ConcIdle
    /\ ExtIdle

NextConc ==
    \/ MenuChat \/ MenuSync \/ MenuRagInfo
    \/ ChatEsc \/ ChatEnter
    \/ RagInfoEsc \/ RagInfoReembed
    \/ SyncEsc
    \/ RecvSyncResult \/ RecvReembedResult \/ RecvLlmResult
    \/ ClearLock \/ ClearBody
    \/ AddEmbed
    \/ \E ok \in BOOLEAN : AddInferred(ok)
    \/ AddLock \/ AddRetain \/ AddPush \/ AddSave
    \/ ReembedSnapLock \/ ReembedSnapshot
    \/ ReembedEmbed
    \/ \E ok \in BOOLEAN : ReembedInferred(ok)
    \/ ReembedLock \/ ReembedRetain \/ ReembedPush
    \/ ReembedSaveLock \/ ReembedSave
    \/ SearchEmbed
    \/ \E ok \in BOOLEAN : SearchInferred(ok)
    \/ SearchLock \/ SearchRead

SpecConc == InitConc /\ [][NextConc]_vars

----------------------------------------------------------------------------
(* Properties of the background tasks, checked under SpecConc *)

\* C8: at most one inference call against the embedding model is in flight.
C8_OneInferenceInFlight == Cardinality(inflight) <= 1

C10_NoLockAcrossEmbed ==
    \A t \in TaskIds : lock = t => (t \notin inflight /\ task[t].pc \notin {"embed", "infer"})

C10_Witness == lock = "reembed" /\ At("reembed", "push") /\ "chat" \in inflight

----------------------------------------------------------------------------
(* The result channels of run_app.  A producer is a spawned task seen from *)
(* its channel: it sends at the points where the code sends and works in   *)
(* between.  tokio's mpsc::Sender::send waits while the queue is full and  *)
(* returns Err once the receiver is dropped; try_send returns Err in both  *)
(* cases.  The capacities (100 for sync and re-embed, 10 for the LLM) are  *)
(* scaled down to ChanCap.                                                 *)
ChanCap == 1

Full(q) == Len(q) >= ChanCap

\* Sender::send(msg).await as the caller sees it: the queue afterwards.  The
\* caller is suspended while the queue is full and the receiver is alive.
CanSend(q) == ~tui.open \/ ~Full(q)

Sent(q, msg) == IF tui.open THEN Append(q, msg) ELSE q

\* Sender::try_send(msg): the message is queued only when there is room and
\* the receiver is alive
TrySent(q, msg) == IF tui.open /\ ~Full(q) THEN Append(q, msg) ELSE q

PAt(t, pc) == prod[t].pc = pc

PGoto(t, pc) == prod' = [prod EXCEPT ![t].pc = pc]

IsSummaryDoc(d) == <<"type", "subject">> \in d.metadata

\* a checkpoint passed while the receiver is gone
Passed(t) == IF tui.open THEN acct.passed ELSE acct.passed \cup {t}

\* embedding or add_document work done after such a checkpoint
Late(t) == IF t \in acct.passed THEN acct.late \cup {t} ELSE acct.late

chanRest == <<storeVars, syncVars, task, lock, inflight, seen, scrape, sse, fnVars>>
chanOther == <<chanRest, ui>>

(* handle_menu_input spawns the full sync; run_sync_with_logging *)

\* Enter on "Sync": the task starts with a Log and RagSystem::clear
ChanMenuSync ==
    /\ tui.open
    /\ ui.mode = "Menu" /\ ui.is_connected
    /\ PAt("sync", "idle")
    /\ ui' = [ui EXCEPT !.mode = "Sync", !.sync_running = TRUE]
    /\ prod' = [prod EXCEPT !["sync"] = [pc |-> "clear", i |-> 1, work |-> FullSyncWork]]
    /\ UNCHANGED <<chan, tui, acct, ragVars, chanRest>>

\* tx.send(Log("Clearing old RAG index...")).await; rag.clear()?
SyncSendClear ==
    /\ PAt("sync", "clear")
    /\ CanSend(chan.sync)
    /\ chan' = [chan EXCEPT !.sync = Sent(@, "Log")]
    /\ acct' = [acct EXCEPT !.passed = Passed("sync")]
    /\ ragDocs' = Cleared(ragDocs)
    /\ ragDisk' = RagSaved(ragDocs')
    /\ PGoto("sync", "log")
    /\ UNCHANGED <<tui, chanOther>>

\* the sends before the add_document calls of one subject
SyncSendLog ==
    /\ PAt("sync", "log")
    /\ CanSend(chan.sync)
    /\ chan' = [chan EXCEPT !.sync = Sent(@, "Log")]
    /\ acct' = [acct EXCEPT !.passed = Passed("sync")]
    /\ PGoto("sync", "embed")
    /\ UNCHANGED <<tui, ragVars, chanOther>>

\* add_document up to the await of the inference
SyncEmbed ==
    /\ PAt("sync", "embed")
    /\ acct' = [acct EXCEPT !.late = Late("sync")]
    /\ PGoto("sync", "index")
    /\ UNCHANGED <<chan, tui, ragVars, chanOther>>

\* add_document after the inference; then the next document, the next
\* subject, or the end of the loops
SyncIndex(ok) ==
    /\ PAt("sync", "index")
    /\ LET p == prod["sync"]
           last == p.i = Len(p.work)
       IN IF ok
          THEN /\ IndexAdd(p.work[p.i])
               /\ acct' = [acct EXCEPT !.late = Late("sync")]
               /\ prod' = [prod EXCEPT !["sync"].i = @ + 1,
                                       !["sync"].pc = IF last THEN "success"
                                                      ELSE IF IsSummaryDoc(p.work[p.i + 1]) THEN "log"
                                                      ELSE "embed"]
          ELSE /\ PGoto("sync", "error")
               /\ UNCHANGED <<ragVars, acct>>
    /\ UNCHANGED <<chan, tui, chanOther>>

\* tx.send(SyncResult::Success).await or tx.send(SyncResult::Error(..)).await
SyncSendResult ==
    /\ prod["sync"].pc \in {"success", "error"}
    /\ CanSend(chan.sync)
    /\ chan' = [chan EXCEPT !.sync = Sent(@, IF PAt("sync", "success") THEN "Success" ELSE "Error")]
    /\ prod' = [prod EXCEPT !["sync"] = IdleProd]
    /\ UNCHANGED <<tui, acct, ragVars, chanOther>>

(* handle_rag_info_input spawns the re-embed; RagSystem::reembed_all *)

\* 'r': the task snapshots the documents
ChanRagInfoReembed ==
    /\ tui.open
    /\ ui.mode = "RagInfo" /\ ~ui.reembed_running
    /\ PAt("reembed", "idle")
    /\ ui' = [ui EXCEPT !.reembed_running = TRUE]
    /\ prod' = [prod EXCEPT !["reembed"] =
                   [pc |-> IF Len(ragDocs) = 0 THEN "complete" ELSE "progress",
                    i |-> 1, work |-> ragDocs]]
    /\ UNCHANGED <<chan, tui, acct, ragVars, chanRest>>

\* progress_fn: tx.try_send(ReembedResult::Progress(msg)), its result ignored
ReembedTrySendProgress ==
    /\ PAt("reembed", "progress")
    /\ chan' = [chan EXCEPT !.reembed = TrySent(@, "Progress")]
    /\ acct' = [acct EXCEPT !.passed = Passed("reembed"),
                            !.dropped = @ \/ (tui.open /\ Full(chan.reembed))]
    /\ PGoto("reembed", "embed")
    /\ UNCHANGED <<tui, ragVars, chanOther>>

\* self.embedder.embed(&content) up to the await of the inference
ReembedProdEmbed ==
    /\ PAt("reembed", "embed")
    /\ acct' = [acct EXCEPT !.late = Late("reembed")]
    /\ PGoto("reembed", "index")
    /\ UNCHANGED <<chan, tui, ragVars, chanOther>>

\* the match on the embedding: retain and push on Ok, nothing on Err
ReembedProdIndex(ok) ==
    /\ PAt("reembed", "index")
    /\ LET p == prod["reembed"]
           d == p.work[p.i]
       IN /\ IF ok
             THEN /\ ragDocs' = RagAdded(ragDocs, Doc(d.id, d.content, embed(d.content), d.metadata, d.user_id))
                  /\ acct' = [acct EXCEPT !.late = Late("reembed")]
             ELSE UNCHANGED <<ragDocs, acct>>
          /\ prod' = [prod EXCEPT !["reembed"].i = @ + 1,
                                  !["reembed"].pc = IF p.i = Len(p.work) THEN "complete" ELSE "progress"]
    /\ UNCHANGED <<ragDisk, chan, tui, chanOther>>

\* save_internal, then tx.send(ReembedResult::Complete(count)).await
ReembedSendComplete ==
    /\ PAt("reembed", "complete")
    /\ CanSend(chan.reembed)
    /\ ragDisk' = RagSaved(ragDocs)
    /\ chan' = [chan EXCEPT !.reembed = Sent(@, "Complete")]
    /\ prod' = [prod EXCEPT !["reembed"] = IdleProd]
    /\ UNCHANGED <<ragDocs, tui, acct, chanOther>>

(* run_app: the receiving ends *)

\* while let Ok(result) = rx_sync.try_recv()
RecvSync ==
    /\ tui.open
    /\ chan.sync # <<>>
    /\ chan' = [chan EXCEPT !.sync = Tail(@)]
    /\ ui' = IF Head(chan.sync) \in {"Success", "Error"}
             THEN [ui EXCEPT !.sync_running = FALSE] ELSE ui
    /\ UNCHANGED <<prod, tui, acct, ragVars, chanRest>>

\* while let Ok(result) = rx_reembed.try_recv()
RecvReembed ==
    /\ tui.open
    /\ chan.reembed # <<>>
    /\ chan' = [chan EXCEPT !.reembed = Tail(@)]
    /\ ui' = IF Head(chan.reembed) \in {"Complete", "Error"}
             THEN [ui EXCEPT !.reembed_running = FALSE] ELSE ui
    /\ UNCHANGED <<prod, tui, acct, ragVars, chanRest>>

\* run_app returns: should_quit, or the ? on terminal.draw or event::poll.
\* The receivers are dropped with what they still hold.
LoopExit ==
    /\ tui.open
    /\ tui' = [tui EXCEPT !.open = FALSE]
    /\ chan' = [sync |-> <<>>, reembed |-> <<>>, llm |-> <<>>]
    /\ UNCHANGED <<prod, acct, ragVars, chanOther>>

\* main returns and the runtime is dropped: a task suspended at an await is
\* dropped there and is never polled again
RuntimeDrop(t) ==
    /\ ~tui.open
    /\ PAt(t, "index")
    /\ prod' = [prod EXCEPT ![t] = IdleProd]
    /\ UNCHANGED <<chan, tui, acct, ragVars, chanOther>>

InitChan ==
    /\ backend = "rag"
    /\ StoreEmpty
    /\ ragDocs \in {<<>>, EarlierIndex}
    /\ ragDisk = (IF ragDocs = <<>> THEN NoFile ELSE RagSaved(ragDocs))
    /\ SyncIdle
    /\ ConcIdle
    /\ ExtIdle

NextChan ==
    \/ (tui.open /\ (MenuRagInfo \/ RagInfoEsc \/ SyncEsc))
    \/ ChanMenuSync
    \/ SyncSendClear \/ SyncSendLog \/ SyncEmbed
    \/ \E ok \in BOOLEAN : SyncIndex(ok)
    \/ SyncSendResult
    \/ ChanRagInfoReembed
    \/ ReembedTrySendProgress \/ ReembedProdEmbed
    \/ \E ok \in BOOLEAN : ReembedProdIndex(ok)
    \/ ReembedSendComplete
    \/ RecvSync \/ RecvReembed
    \/ LoopExit
    \/ \E t \in {"sync", "reembed"} : RuntimeDrop(t)

SpecChan == InitChan /\ [][NextChan]_vars

----------------------------------------------------------------------------
(* Properties of the channels, checked under SpecChan *)

\* C11: once the receiver of its result channel is gone, a sync or re-embed
\* task does no embedding and no add_document after the next point at which
\* it sends on that channel.
C11_StopsAtCheckpoint == acct.late = {}

\* C12: no message a task produces is dropped while the UI is receiving.
C12_NoMessageDropped == ~acct.dropped

-----------------------------------------------------------------------------
(* The deep scrape: scrape_subject_content walks the subjects in one       *)
(* blocking closure and calls scrape_single_subject for each.  A page is   *)
(* "subject" when the tab shows the site of the subject and "login" when   *)
(* it shows the login gateway.  tab.close is taken to succeed.             *)

NSubjects == Len(Subjects)

scrapeOther == <<storeVars, ragVars, syncVars, concVars, chanVars, sse, fnVars>>

\* The loop goes on to the next subject: `for (idx, sub) in subjects`.
NextSubject(sc) == [sc EXCEPT !.pc = "loop", !.k = @ + 1, !.page = "none",
                              !.reauths = 0, !.acc = "none"]

\* Browser::new and the start of the loop; creds is whether credentials are
\* cached or in the environment.
ScrapeStart(creds) ==
    /\ scrape.pc = "idle"
    /\ scrape' = [scrape EXCEPT !.pc = "loop", !.k = 1, !.creds = creds,
                                !.summary = [k \in 1..NSubjects |-> "none"]]
    /\ UNCHANGED scrapeOther

\* `let tab = browser.new_tab()?;`
NewTab(ok) ==
    /\ scrape.pc = "loop" /\ scrape.k <= NSubjects
    /\ scrape' = IF ok
                 THEN [scrape EXCEPT !.pc = "dirs", !.tabs = @ \cup {scrape.k}]
                 ELSE NextSubject(scrape)
    /\ UNCHANGED scrapeOther

\* create_dir_all(base_path)?, create_dir_all(resources)?, canonicalize(..)?:
\* an error returns from the function with the tab as it is.
MakeDirs(ok) ==
    /\ scrape.pc = "dirs"
    /\ scrape' = IF ok THEN [scrape EXCEPT !.pc = "navigate"] ELSE NextSubject(scrape)
    /\ UNCHANGED scrapeOther

\* tab.navigate_to(&sub.url): on failure the tab is closed and the function
\* returns Ok("Navigation Failed"), which the caller pushes to the results.
\* On success the page is the subject's or, with the session expired, the
\* login gateway.
Navigate(ok, expired) ==
    /\ scrape.pc = "navigate"
    /\ scrape' = IF ok
                 THEN [scrape EXCEPT !.pc = "session",
                                     !.page = IF expired THEN "login" ELSE "subject"]
                 ELSE [NextSubject(scrape) EXCEPT
                          !.tabs = @ \ {scrape.k},
                          !.results = Append(@, [sub |-> scrape.k, path |-> "Navigation Failed"])]
    /\ UNCHANGED scrapeOther

\* The session check: with the login page shown and credentials at hand the
\* login form is filled and the subject opened again; the page is not looked
\* at after that.
CheckSession(loggedIn) ==
    /\ scrape.pc = "session"
    /\ scrape' = IF scrape.page = "login" /\ scrape.creds
                 THEN [scrape EXCEPT !.pc = "content", !.reauths = @ + 1,
                                     !.page = IF loggedIn THEN "subject" ELSE "login",
                                     !.invalid = IF loggedIn THEN @ ELSE @ \cup {scrape.k}]
                 ELSE [scrape EXCEPT !.pc = "content"]
    /\ UNCHANGED scrapeOther

\* The dashboard text and the tools go into content_accumulator.
Content ==
    /\ scrape.pc = "content"
    /\ scrape' = [scrape EXCEPT !.pc = "write", !.acc = scrape.page]
    /\ UNCHANGED scrapeOther

\* std::fs::write(summary.md), its error only logged.
WriteSummary(ok) ==
    /\ scrape.pc = "write"
    /\ scrape' = [scrape EXCEPT !.pc = "close",
                                !.summary[scrape.k] = IF ok THEN scrape.acc ELSE @]
    /\ UNCHANGED scrapeOther

\* tab.close(true) and Ok(base_path), pushed to the results by the caller.
CloseTab ==
    /\ scrape.pc = "close"
    /\ scrape' = [NextSubject(scrape) EXCEPT
                     !.tabs = @ \ {scrape.k},
                     !.results = Append(@, [sub |-> scrape.k, path |-> "base_path"])]
    /\ UNCHANGED scrapeOther

\* The loop is over: the results go to the sync that indexes them.
ScrapeEnd ==
    /\ scrape.pc = "loop" /\ scrape.k > NSubjects
    /\ scrape' = [scrape EXCEPT !.pc = "done"]
    /\ UNCHANGED scrapeOther

Handed == {scrape.results[i].sub : i \in 1..Len(scrape.results)}

InitScrape ==
    /\ backend = "rag"
    /\ StoreEmpty
    /\ ragDocs = <<>> /\ ragDisk = NoFile
    /\ SyncIdle
    /\ ConcIdle
    /\ ExtIdle

NextScrape ==
    \/ \E creds \in BOOLEAN : ScrapeStart(creds)
    \/ \E ok \in BOOLEAN : NewTab(ok)
    \/ \E ok \in BOOLEAN : MakeDirs(ok)
    \/ \E ok, expired \in BOOLEAN : Navigate(ok, expired)
    \/ \E loggedIn \in BOOLEAN : CheckSession(loggedIn)
    \/ Content
    \/ \E ok \in BOOLEAN : WriteSummary(ok)
    \/ CloseTab
    \/ ScrapeEnd

SpecScrape == InitScrape /\ [][NextScrape]_vars

\* C14: a subject whose session is still invalid after the re-authentication
\* gets no summary.md written from the login page and is not handed to the
\* indexing.
C14_InvalidSessionAborted ==
    \A k \in scrape.invalid : scrape.summary[k] # "login" /\ k \notin Handed

\* C15: the tab of a subject is closed before the tab of the next subject is
\* opened: at most one tab is open.
C15_OneTabAtATime == Cardinality(scrape.tabs) <= 1

-----------------------------------------------------------------------------
(* LlmClient::chat_stream: the response body arrives in network chunks,    *)
(* is appended to a buffer and cut into lines at '\n'.  A body is a        *)
(* sequence of tokens: "data: " (the field name), a payload ("{a}" is the  *)
(* JSON of a delta with content a, "{}" of a delta whose content is the    *)
(* empty string, "{null}" of a delta without content, "[DONE]" the end     *)
(* marker) and "NL" (the                                                   *)
(* newline); a chunk boundary can fall between any two tokens.             *)

Bodies ==
    { <<"data: ", "{a}", "NL", "NL", "data: ", "[DONE]", "NL", "NL">>,
      <<"data: ", "{a}", "NL", "data: ", "[DONE]", "NL", "data: ", "{b}", "NL">>,
      <<"data: ", "{}", "NL", "data: ", "{a}", "NL", "data: ", "{null}", "NL">> }

\* resp.bytes_stream(): every way the body can arrive as non-empty chunks.
RECURSIVE Splits(_)
Splits(b) ==
    IF b = <<>> THEN {<<>>}
    ELSE UNION { { <<SubSeq(b, 1, n)>> \o rest : rest \in Splits(SubSeq(b, n + 1, Len(b))) }
                 : n \in 1..Len(b) }

\* buffer.find('\n'): the position of the first newline, 0 for None.
Find(buffer) ==
    IF \E i \in 1..Len(buffer) : buffer[i] = "NL"
    THEN CHOOSE i \in 1..Len(buffer) : buffer[i] = "NL" /\ \A j \in 1..(i - 1) : buffer[j] # "NL"
    ELSE 0

\* serde_json::from_str::<ChatStreamResponse>(data) and the events yielded
\* for it; a payload that does not parse yields nothing.
\* choice.delta.content of the parsed payload: Some("") for "{}", None for
\* "{null}" and for a payload that does not parse.
DeltaContent(data) ==
    IF data = <<"{a}">> THEN <<"a">>
    ELSE IF data = <<"{b}">> THEN <<"b">>
    ELSE IF data = <<"{}">> THEN <<"">>
    ELSE <<>>

Events(data) ==
    IF DeltaContent(data) # <<>>
    THEN <<[t |-> "Content", v |-> DeltaContent(data)[1]]>>
    ELSE <<>>

SseStart(chunks) == [SseIdle EXCEPT !.pc = "recv", !.chunks = chunks, !.next = 1]

sseOther == <<storeVars, ragVars, syncVars, concVars, chanVars, scrape, fnVars>>

\* `for await chunk_res in stream`: the next chunk is pushed to the buffer.
SseRecv ==
    /\ sse.pc = "recv" /\ sse.next <= Len(sse.chunks)
    /\ sse' = [sse EXCEPT !.pc = "lines", !.next = @ + 1,
                          !.buffer = @ \o sse.chunks[sse.next]]
    /\ UNCHANGED sseOther

\* One turn of `while let Some(pos) = buffer.find('\n')`: the line is taken
\* off the buffer; `break` on [DONE] leaves the while loop only.
SseLine ==
    /\ sse.pc = "lines"
    /\ LET pos == Find(sse.buffer)
           line == SubSeq(sse.buffer, 1, pos - 1)
           rest == SubSeq(sse.buffer, pos + 1, Len(sse.buffer))
           isData == line # <<>> /\ Head(line) = "data: "
           data == Tail(line)
       IN IF pos = 0
          THEN sse' = [sse EXCEPT !.pc = "recv"]
          ELSE IF isData /\ data = <<"[DONE]">>
               THEN sse' = [sse EXCEPT !.pc = "recv", !.buffer = rest, !.doneSeen = TRUE]
               ELSE IF isData
                    THEN sse' = [sse EXCEPT !.buffer = rest,
                                            !.out = @ \o Events(data),
                                            !.seen = Append(@, data),
                                            !.late = IF sse.doneSeen THEN @ \o Events(data) ELSE @]
                    ELSE sse' = [sse EXCEPT !.buffer = rest]
    /\ UNCHANGED sseOther

\* The byte stream is over: the event stream ends.
SseEnd ==
    /\ sse.pc = "recv" /\ sse.next > Len(sse.chunks)
    /\ sse' = [sse EXCEPT !.pc = "end"]
    /\ UNCHANGED sseOther

InitSse ==
    /\ backend = "rag"
    /\ StoreEmpty
    /\ ragDocs = <<>> /\ ragDisk = NoFile
    /\ SyncIdle
    /\ ConcIdle
    /\ ChanIdle
    /\ scrape = ScrapeIdle
    /\ FnIdle
    /\ \E b \in Bodies : \E chunks \in Splits(b) : sse = SseStart(chunks)

NextSse == SseRecv \/ SseLine \/ SseEnd

SpecSse == InitSse /\ [][NextSse]_vars

\* C17: whatever the split of the body into chunks, no event is emitted for
\* a data line that follows `data: [DONE]`.
C17_NothingAfterDone == sse.late = <<>>

-----------------------------------------------------------------------------
(* The streamed chat answer: the chat task forwards the events of          *)
(* chat_stream on the LLM channel, the model-list fetch of the Settings    *)
(* screen sends on the same channel, and run_app takes one message per     *)
(* turn of its loop.  A content is a sequence of characters.  One chat     *)
(* task and one fetch run at a time; a message carries the number of the   *)
(* request it belongs to, which only the observer reads.                   *)

MaxChats == 1
MaxFetches == 1

ContentItem(v) == [t |-> "Content", v |-> v]
UsageItem == [t |-> "Usage", v |-> <<>>]
\* An Err item of the stream (a network error); the stream is over after it.
ErrItem == [t |-> "Err", v |-> <<>>]
\* chat_stream itself returned Err: there is no stream.
FailItem == [t |-> "Fail", v |-> <<>>]

\* What chat_stream can yield for a request.
Streams ==
    { <<ContentItem(<<" ">>), ContentItem(<<"a">>), UsageItem, ContentItem(<<"b">>)>>,
      <<ContentItem(<<"a">>), ErrItem>>,
      <<FailItem>> }

LlmMsg(kind, item, req) == [k |-> kind, t |-> item.t, v |-> item.v, req |-> req]

\* str::trim on a content.
RECURSIVE TrimStart(_)
TrimStart(c) == IF c # <<>> /\ Head(c) = " " THEN TrimStart(Tail(c)) ELSE c
RECURSIVE TrimEnd(_)
TrimEnd(c) == IF c # <<>> /\ c[Len(c)] = " " THEN TrimEnd(SubSeq(c, 1, Len(c) - 1)) ELSE c
Trim(c) == TrimEnd(TrimStart(c))

LastIsAssistant(msgs) == msgs # <<>> /\ msgs[Len(msgs)].role = "assistant"

\* `if let Some(last) = app.messages.last_mut() { if last.role == "assistant" {..} }`
PushStr(msgs, chunk) ==
    IF LastIsAssistant(msgs)
    THEN [msgs EXCEPT ![Len(msgs)].content = @ \o chunk]
    ELSE msgs
TrimLast(msgs) ==
    IF LastIsAssistant(msgs)
    THEN [msgs EXCEPT ![Len(msgs)].content = Trim(@)]
    ELSE msgs

IsSystem(m) == m.role = "system"

streamRest == <<storeVars, ragVars, syncVars, task, lock, inflight, seen, scrape, sse, fnVars>>

\* handle_chat_input, Enter: the user message and the empty assistant
\* placeholder are pushed and the chat task is spawned.
StreamChatEnter(work) ==
    /\ ui.mode = "Chat" /\ ~ui.is_thinking
    /\ PAt("chat", "idle")
    /\ acct.chats < MaxChats
    /\ tui' = [tui EXCEPT !.messages = @ \o <<[role |-> "user", content |-> <<"q">>],
                                               [role |-> "assistant", content |-> <<>>]>>]
    /\ ui' = [ui EXCEPT !.is_thinking = TRUE]
    /\ prod' = [prod EXCEPT !["chat"] = [pc |-> "send", i |-> 1, work |-> work]]
    /\ acct' = [acct EXCEPT !.chats = @ + 1, !.slot = Len(tui.messages) + 2,
                            !.deltas = <<>>, !.fin = NoFin]
    /\ UNCHANGED <<chan, streamRest>>

\* handle_chat_input, Ctrl+L: only the system message is kept.
ChatCtrlL ==
    /\ ui.mode = "Chat"
    /\ tui' = [tui EXCEPT !.messages = SelectSeq(@, IsSystem)]
    /\ acct' = [acct EXCEPT !.slot = 0]
    /\ UNCHANGED <<ui, chan, prod, streamRest>>

\* The chat task: `while let Some(chunk_res) = stream.next().await`, one
\* tx.send(..).await per event, then StreamDone.
ChatSend ==
    /\ PAt("chat", "send")
    /\ CanSend(chan.llm)
    /\ LET p == prod["chat"]
           item == p.work[p.i]
       IN IF p.i > Len(p.work)
          THEN /\ chan' = [chan EXCEPT !.llm = Sent(@, LlmMsg("StreamDone", UsageItem, acct.chats))]
               /\ prod' = [prod EXCEPT !["chat"] = IdleProd]
               /\ UNCHANGED acct
          ELSE IF item.t \in {"Content", "Usage"}
          THEN /\ chan' = [chan EXCEPT !.llm = Sent(@, LlmMsg("StreamChunk", item, acct.chats))]
               /\ prod' = [prod EXCEPT !["chat"].i = @ + 1]
               /\ acct' = [acct EXCEPT !.deltas = @ \o item.v]
          ELSE /\ chan' = [chan EXCEPT !.llm = Sent(@, LlmMsg("Error", item, acct.chats))]
               /\ prod' = [prod EXCEPT !["chat"] =
                              IF item.t = "Fail" THEN IdleProd ELSE [p EXCEPT !.i = Len(p.work) + 1]]
               /\ UNCHANGED acct
    /\ UNCHANGED <<ui, tui, streamRest>>

\* handle_menu_input, Enter on "Settings": the model-list fetch is spawned.
MenuSettings(ok) ==
    /\ ui.mode = "Menu"
    /\ PAt("models", "idle")
    /\ acct.fetches < MaxFetches
    /\ ui' = [ui EXCEPT !.mode = "Settings", !.models_loading = TRUE]
    /\ prod' = [prod EXCEPT !["models"] =
                   [pc |-> "send", i |-> 1,
                    work |-> <<IF ok THEN "ModelList" ELSE "Error">>]]
    /\ acct' = [acct EXCEPT !.fetches = @ + 1]
    /\ UNCHANGED <<chan, tui, streamRest>>

\* The fetch task sends ModelList or Error on the LLM channel.
ModelsSend ==
    /\ PAt("models", "send")
    /\ CanSend(chan.llm)
    /\ chan' = [chan EXCEPT !.llm = Sent(@, LlmMsg(prod["models"].work[1], UsageItem, 0))]
    /\ prod' = [prod EXCEPT !["models"] = IdleProd]
    /\ UNCHANGED <<ui, tui, acct, streamRest>>

\* handle_settings_input, Esc: back to the menu.
SettingsEsc ==
    /\ ui.mode = "Settings"
    /\ ui' = [ui EXCEPT !.mode = "Menu"]
    /\ UNCHANGED <<chan, prod, tui, acct, streamRest>>

\* run_app: `if let Ok(result) = rx_llm.try_recv()` and its match.
RecvLlm ==
    /\ tui.open
    /\ chan.llm # <<>>
    /\ LET msg == Head(chan.llm)
           msgs == tui.messages
           after == CASE msg.k = "StreamChunk" /\ msg.t = "Content" -> PushStr(msgs, msg.v)
                      [] msg.k = "StreamDone" -> TrimLast(msgs)
                      [] msg.k = "Error" ->
                            Append(msgs, [role |-> "assistant", content |-> <<"Error">>])
                      [] OTHER -> msgs
       IN /\ chan' = [chan EXCEPT !.llm = Tail(@)]
          /\ tui' = [tui EXCEPT !.messages = after]
          /\ ui' = IF msg.k \in {"StreamDone", "Error"}
                   THEN [ui EXCEPT !.is_thinking = FALSE]
                   ELSE IF msg.k = "ModelList"
                        THEN [ui EXCEPT !.models_loading = FALSE] ELSE ui
          /\ acct' = IF msg.k = "StreamDone" /\ msg.req = acct.chats
                     THEN [acct EXCEPT !.fin =
                              [done |-> TRUE,
                               content |-> IF acct.slot = 0 THEN <<>> ELSE after[acct.slot].content,
                               deltas |-> acct.deltas]]
                     ELSE acct
    /\ UNCHANGED <<prod, streamRest>>

InitStream == InitChan

NextStream ==
    \/ (tui.open /\ (MenuChat \/ ChatEsc))
    \/ \E work \in Streams : StreamChatEnter(work)
    \/ ChatCtrlL
    \/ ChatSend
    \/ \E ok \in BOOLEAN : MenuSettings(ok)
    \/ ModelsSend
    \/ SettingsEsc
    \/ RecvLlm

SpecStream == InitStream /\ [][NextStream]_vars

\* C16: when the stream of a request finishes, the assistant message that
\* was being streamed, if the user did not clear it, holds the Content deltas
\* of the request concatenated in the order they were sent (up to the
\* whitespace StreamDone trims at the two ends).
C16_ContentIsConcatenation ==
    (acct.fin.done /\ acct.slot # 0) => acct.fin.content = Trim(acct.fin.deltas)

-----------------------------------------------------------------------------
(* The searches as functions of their arguments: a store is filled by      *)
(* add_document and then searched, and the observer keeps the arguments of *)
(* the search next to the pairs it returned.                               *)

\* A search: which search it was, its arguments and the pairs it returned.
SearchObs(api, before, q, user_id, top_k, min_threshold, res) ==
    [op |-> "search", id |-> <<>>, had |-> FALSE, before |-> before, user |-> user_id,
     res |-> res, pre |-> <<>>, api |-> api, q |-> q, top_k |-> top_k,
     min_threshold |-> min_threshold]

searchOther == <<backend, linDocs, linDisk, hDocs, hIdMap, hNextId, hGraph, hDisk,
                 ragVars, syncVars, concVars, extVars>>

LinSearchCall(q, user_id, top_k, min_threshold) ==
    /\ backend = "linear"
    /\ obs' = SearchObs("store", LinCount, q, user_id, top_k, min_threshold,
                        LinSearch(linDocs, q, user_id, top_k, min_threshold))
    /\ UNCHANGED searchOther

HnswSearchCall(q, user_id, top_k, min_threshold) ==
    /\ backend = "hnsw"
    /\ obs' = SearchObs("store", HnswCount, q, user_id, top_k, min_threshold,
                        HnswSearch(hGraph, hDocs, q, user_id, top_k, min_threshold))
    /\ UNCHANGED searchOther

\* RagSystem::search with the query embedded; it has no threshold.
RagSearchCall(query, user_id, top_k) ==
    /\ backend = "rag"
    /\ obs' = SearchObs("rag", RagCount, embed(query), user_id, top_k, 0,
                        RagSearch(ragDocs, embed(query), user_id, top_k))
    /\ UNCHANGED searchOther

NextSearch ==
    \/ \E d \in DocPool : LinAddDocument(d)
    \/ \E d \in DocPool : HnswAddDocument(d)
    \/ \E d \in DocPool : RagAddDocument(d, TRUE)
    \/ \E q \in QueryVecs, u \in Users, k \in 0..MaxTopK, t \in Thresholds : LinSearchCall(q, u, k, t)
    \/ \E q \in QueryVecs, u \in Users, k \in 0..MaxTopK, t \in Thresholds : HnswSearchCall(q, u, k, t)
    \/ \E q \in Queries, u \in Users, k \in 0..MaxTopK : RagSearchCall(q, u, k)

SpecSearch == Init /\ [][NextSearch]_vars

\* The documents of the store in use.
StoredDocs ==
    CASE backend = "linear" -> SeqToSet(linDocs)
      [] backend = "hnsw" -> {hDocs[n] : n \in DOMAIN hDocs}
      [] OTHER -> SeqToSet(ragDocs)

\* The documents of the queried user with a similarity of at least the
\* threshold, each with its similarity.
Passing ==
    { [doc |-> d, score |-> cosine_similarity(obs.q, d.embedding)] :
        d \in { e \in StoredDocs : /\ e.user_id = obs.user
                                   /\ cosine_similarity(obs.q, e.embedding) >= obs.min_threshold } }

\* C18: a search with top_k = 0 returns the empty list, in both store
\* backends and in RagSystem::search.
C18_TopKZeroEmpty ==
    (obs.op = "search" /\ obs.top_k = 0) => obs.res = <<>>

\* C19: a store-level search with top_k = 0 has no cap: it returns every
\* document of the queried user that passes min_threshold.
C19_TopKZeroNoCap ==
    (obs.op = "search" /\ obs.api = "store" /\ obs.top_k = 0)
        => SeqToSet(obs.res) = Passing

\* C20: a store-level search with top_k > 0 returns at most top_k pairs,
\* sorted by similarity descending, which are the highest-scoring documents
\* of the queried user with similarity >= min_threshold; a similarity equal
\* to the threshold passes.
C20_TopKBestSorted ==
    (obs.op = "search" /\ obs.api = "store" /\ obs.top_k > 0)
        => /\ Len(obs.res) = Min(obs.top_k, Cardinality(Passing))
           /\ \A i \in 1..(Len(obs.res) - 1) : obs.res[i].score >= obs.res[i + 1].score
           /\ SeqToSet(obs.res) \subseteq Passing
           /\ \A h \in Passing \ SeqToSet(obs.res) :
                 \A i \in 1..Len(obs.res) : obs.res[i].score >= h.score

-----------------------------------------------------------------------------
(* extract_relevant_snippet (rag/mod.rs).  A content is a sequence of      *)
(* characters; "é" takes two bytes in UTF-8, the others one.  The window   *)
(* of 50 words, the lead of 50 characters and max_chars = 1500 are scaled  *)
(* down to WindowSize, Lead and SnippetMax.                                *)

MaxContent == 5
WindowSize == 1
Lead == 1
SnippetMax == 3

Chars == {"a", "A", " ", "é"}

RECURSIVE SeqsUpTo(_, _)
SeqsUpTo(S, n) ==
    IF n = 0 THEN {<<>>}
    ELSE LET shorter == SeqsUpTo(S, n - 1)
         IN shorter \cup {Append(c, x) : c \in {d \in shorter : Len(d) = n - 1}, x \in S}

Contents == SeqsUpTo(Chars, MaxContent)

\* query_words as search_snippets builds them: lowercased, split at whitespace.
QueryWords ==
    { << <<"z">> >>, << <<"a">> >>, << <<"a">>, <<"é">> >>, << <<"a">>, <<"a">>, <<"é">> >> }

\* str::len counts bytes.
RECURSIVE ByteLen(_)
ByteLen(c) == IF c = <<>> THEN 0 ELSE (IF Head(c) = "é" THEN 2 ELSE 1) + ByteLen(Tail(c))

\* str::to_lowercase
Lower(c) == [i \in 1..Len(c) |-> IF c[i] = "A" THEN "a" ELSE c[i]]

\* str::split_whitespace
RECURSIVE SplitWhitespace(_, _)
SplitWhitespace(c, word) ==
    IF c = <<>> THEN (IF word = <<>> THEN <<>> ELSE <<word>>)
    ELSE IF Head(c) = " "
         THEN (IF word = <<>> THEN <<>> ELSE <<word>>) \o SplitWhitespace(Tail(c), <<>>)
         ELSE SplitWhitespace(Tail(c), Append(word, Head(c)))

\* [&str]::join(" ")
RECURSIVE Join(_)
Join(words) ==
    IF words = <<>> THEN <<>>
    ELSE IF Len(words) = 1 THEN words[1]
    ELSE words[1] \o <<" ">> \o Join(Tail(words))

\* str::contains
Contains(c, w) == \E i \in 1..(Len(c) - Len(w) + 1) : SubSeq(c, i, i + Len(w) - 1) = w

\* words[..i].iter().map(|w| w.len() + 1).sum()
RECURSIVE CharPos(_, _)
CharPos(words, i) == IF i = 0 THEN 0 ELSE ByteLen(words[i]) + 1 + CharPos(words, i - 1)

\* query_words.iter().filter(|qw| window.contains(*qw)).count()
Score(window, query_words) ==
    Cardinality({k \in 1..Len(query_words) : Contains(window, query_words[k])})

\* `for i in 0..words.len().saturating_sub(window_size)`: the start of the
\* first window with the highest number of query words, 0 when none has one.
RECURSIVE BestPos(_, _, _, _, _)
BestPos(words, query_words, i, best_pos, best_score) ==
    IF i >= Len(words) - WindowSize THEN best_pos
    ELSE LET window == Lower(Join(SubSeq(words, i + 1, i + WindowSize)))
             score == Score(window, query_words)
         IN IF score > best_score
            THEN BestPos(words, query_words, i + 1, CharPos(words, i), score)
            ELSE BestPos(words, query_words, i + 1, best_pos, best_score)

\* snippet.find(' ') and snippet.rfind(' '): 0 for None.
FindSpace(c) ==
    IF \E i \in 1..Len(c) : c[i] = " "
    THEN CHOOSE i \in 1..Len(c) : c[i] = " " /\ \A j \in 1..(i - 1) : c[j] # " "
    ELSE 0
RFindSpace(c) ==
    IF \E i \in 1..Len(c) : c[i] = " "
    THEN CHOOSE i \in 1..Len(c) : c[i] = " " /\ \A j \in (i + 1)..Len(c) : c[j] # " "
    ELSE 0

\* a plausible slip: a snippet cut on the right is returned without the dots
SuffixedNot(snippet) ==
    IF RFindSpace(snippet) > 0 THEN SubSeq(snippet, 1, RFindSpace(snippet) - 1) ELSE snippet

\* `if start > 0`: cut to the first word boundary, "..." in front.
Prefixed(snippet) ==
    <<"...">> \o (IF FindSpace(snippet) > 0
                  THEN SubSeq(snippet, FindSpace(snippet) + 1, Len(snippet)) ELSE snippet)

\* `if end < content.len()`: cut to the last word boundary, "..." behind.
Suffixed(snippet) ==
    (IF RFindSpace(snippet) > 0 THEN SubSeq(snippet, 1, RFindSpace(snippet) - 1) ELSE snippet)
        \o <<"...">>

extract_relevant_snippet(content, query_words) ==
    LET best_pos == BestPos(SplitWhitespace(content, <<>>), query_words, 0, 0, 0)
        start == IF best_pos > Lead THEN best_pos - Lead ELSE 0
        end == Min(start + SnippetMax, ByteLen(content))
        taken == SubSeq(content, start + 1, Min(Len(content), end))
        left == IF start > 0 THEN Prefixed(taken) ELSE taken
        right == IF end < ByteLen(content) THEN Suffixed(left) ELSE left
    IN Trim(right)

fnOther == <<storeVars, ragVars, syncVars, concVars, chanVars, scrape, sse>>
snipRest == <<fnOther, pr, cfg, ld, em, re, ss, hl>>
prRest == <<fnOther, snip, cfg, ld, em, re, ss, hl>>
cfgRest == <<fnOther, snip, pr, ld, em, re, ss, hl>>
ldRest == <<fnOther, snip, pr, cfg, em, re, ss, hl>>
emRest == <<fnOther, snip, pr, cfg, ld, re, ss, hl>>
reRest == <<fnOther, snip, pr, cfg, ld, em, ss, hl>>
ssRest == <<fnOther, snip, pr, cfg, ld, em, re, hl>>
hlRest == <<fnOther, snip, pr, cfg, ld, em, re, ss>>
FnOtherIdle ==
    /\ backend = "rag"
    /\ StoreEmpty
    /\ ragDocs = <<>> /\ ragDisk = NoFile
    /\ SyncIdle
    /\ ConcIdle
    /\ ChanIdle /\ scrape = ScrapeIdle /\ sse = SseIdle

ExtractSnippet ==
    /\ snip.pc = "call"
    /\ snip' = [snip EXCEPT !.pc = "returned",
                            !.out = extract_relevant_snippet(snip.content, snip.query_words)]
    /\ UNCHANGED snipRest

InitSnippet ==
    /\ FnOtherIdle
    /\ pr = PrIdle /\ cfg = CfgIdle /\ ld = LdIdle /\ em = EmIdle /\ re = ReIdle /\ ss = SsIdle /\ hl = HlIdle
    /\ \E c \in Contents, qw \in QueryWords :
          snip = [pc |-> "call", content |-> c, query_words |-> qw, out |-> <<>>]

NextSnippet == ExtractSnippet

SpecSnippet == InitSnippet /\ [][NextSnippet]_vars

\* No query word occurs in the content.
NoQueryWordOccurs ==
    \A k \in 1..Len(snip.query_words) : ~Contains(Lower(snip.content), snip.query_words[k])

MaxFiles == 2
MaxEntries == 2

SubjectPath == <<"data", "s">>
ResourcesPath == SubjectPath \o <<"resources">>
ExtractedPath == ResourcesPath \o <<"extracted">>

\* path.file_stem() of the archive that is the z-th file of the listing
ZipName(z) == <<"z1", "z2", "z3", "z4", "z5">>[z]

\* extracted_path.join(zip_name)
TargetDir(z) == ExtractedPath \o <<ZipName(z)>>

ResourceKinds == {"zip", "badzip", "pdf", "pdf_nonzero", "pdf_nospawn", "pdf_empty"}

\* what read_dir(resources) lists, in the order the system gives
Listings == SeqsUpTo(ResourceKinds, MaxFiles) \ {<<>>}

ZipComps ==
    { <<"a">>, <<"a", "a">>, <<".", "a">>, <<"a", "..">>, <<"a", "..", "a">>,
      <<"..">>, <<"..", "a">>, <<"a", "..", "..">>, <<"a", "..", "..", "a">>,
      <<"..", "..", "a">>, <<"..", "z1", "a">> }

ZipEntries == [abs : BOOLEAN, comps : ZipComps, dir : BOOLEAN]

IsPrefix(p, q) == Len(p) <= Len(q) /\ SubSeq(q, 1, Len(p)) = p

\* the directory a path names once its components are followed from base
RECURSIVE Resolved(_, _)
Resolved(base, comps) ==
    IF comps = <<>> THEN base
    ELSE LET c == Head(comps)
             next == IF c = "." THEN base
                     ELSE IF c = ".." THEN SubSeq(base, 1, Len(base) - IF base = <<>> THEN 0 ELSE 1)
                     ELSE Append(base, c)
         IN Resolved(next, Tail(comps))

\* Path::join: an absolute name replaces the base
Joined(base, e) == IF e.abs THEN <<>> ELSE base

\* the depth enclosed_name keeps while it walks the components: -1 once
\* a ".." would leave the directory the name is relative to
RECURSIVE Depth(_, _)
Depth(comps, depth) ==
    IF comps = <<>> THEN depth
    ELSE LET c == Head(comps)
         IN IF c = ".." THEN (IF depth = 0 THEN -1 ELSE Depth(Tail(comps), depth - 1))
            ELSE IF c = "." THEN Depth(Tail(comps), depth)
            ELSE Depth(Tail(comps), depth + 1)

\* a plausible slip: every name is taken as it is
enclosed_name_any(e) == TRUE

\* ZipFile::enclosed_name is Some
enclosed_name(e) == ~e.abs /\ Depth(e.comps, 0) >= 0

\* the resolved path of the entry leaves the target directory
Escapes(z, e) == ~IsPrefix(TargetDir(z), Resolved(Joined(TargetDir(z), e), e.comps))

\* the directories create_dir_all makes for the first n components of
\* the entry's path: the ones that lead to it and are not there yet
DirsMade(z, e, n) ==
    LET base == Joined(TargetDir(z), e)
        lead == IF e.abs THEN {} ELSE { SubSeq(base, 1, k) : k \in (Len(ResourcesPath) + 1)..Len(base) }
    IN lead \cup { Resolved(base, SubSeq(e.comps, 1, k)) : k \in 0..n }

PrPaths(kind) == { w.path : w \in { x \in pr.written : x.kind = kind } }

Existing(kind) ==
    PrPaths(kind) \cup (IF kind = "dir" THEN { SubSeq(ResourcesPath, 1, k) : k \in 0..Len(ResourcesPath) } ELSE {})

PrStart(listing) ==
    [pc |-> "unzip", dir |-> listing, i |-> 1, n |-> 0, written |-> {},
     refused |-> {}, docs |-> <<>>, logged |-> {}, result |-> "none"]

PrIsZip(k) == k \in {"zip", "badzip"}

\* for entry in entries.flatten(): a file that is no archive is passed
PrUnzipSkip ==
    /\ pr.pc = "unzip" /\ pr.i <= Len(pr.dir)
    /\ ~PrIsZip(pr.dir[pr.i])
    /\ pr' = [pr EXCEPT !.i = @ + 1]
    /\ UNCHANGED prRest

\* File::open(&path)? and ZipArchive::new(file)?
PrUnzipOpen ==
    /\ pr.pc = "unzip" /\ pr.i <= Len(pr.dir)
    /\ PrIsZip(pr.dir[pr.i])
    /\ pr' = IF pr.dir[pr.i] = "badzip"
             THEN [pr EXCEPT !.pc = "err"]
             ELSE [pr EXCEPT !.pc = "entries", !.n = 0]
    /\ UNCHANGED prRest

\* one turn of for i in 0..archive.len()
PrUnzipEntry ==
    /\ pr.pc = "entries" /\ pr.n < MaxEntries
    /\ \E e \in ZipEntries :
          LET z == pr.i
              out == Resolved(Joined(TargetDir(z), e), e.comps)
              dirs == DirsMade(z, e, IF e.dir THEN Len(e.comps) ELSE Len(e.comps) - 1)
              made(paths, kind) == { [zip |-> z, path |-> p, kind |-> kind] : p \in paths \ Existing(kind) }
          IN IF ~enclosed_name(e)
             THEN pr' = [pr EXCEPT !.n = @ + 1,
                                   !.refused = @ \cup {[zip |-> z, escapes |-> Escapes(z, e)]}]
             ELSE IF dirs \cap Existing("file") # {}
             THEN pr' = [pr EXCEPT !.pc = "err"]
             ELSE IF e.dir
             THEN pr' = [pr EXCEPT !.n = @ + 1, !.written = @ \cup made(dirs, "dir")]
             ELSE IF out \in Existing("dir") \cup dirs
             THEN pr' = [pr EXCEPT !.pc = "err", !.written = @ \cup made(dirs, "dir")]
             ELSE pr' = [pr EXCEPT !.n = @ + 1,
                                   !.written = @ \cup made(dirs, "dir") \cup made({out}, "file")]
    /\ UNCHANGED prRest

\* archive.len() entries were read
PrUnzipDone ==
    /\ pr.pc = "entries"
    /\ pr' = [pr EXCEPT !.pc = "unzip", !.i = @ + 1]
    /\ UNCHANGED prRest

\* the scan of resources/ begins
PrScan ==
    /\ pr.pc = "unzip" /\ pr.i > Len(pr.dir)
    /\ pr' = [pr EXCEPT !.pc = "pdfs", !.i = 1]
    /\ UNCHANGED prRest

\* one file of the walk: a PDF is given to the extractor child
PrPdf ==
    /\ pr.pc = "pdfs" /\ pr.i <= Len(pr.dir)
    /\ LET k == pr.dir[pr.i]
       IN pr' = [pr EXCEPT !.i = @ + 1,
                           !.docs = IF k = "pdf" THEN Append(@, pr.i) ELSE @,
                           !.logged = IF k \in {"pdf_nonzero", "pdf_nospawn"}
                                      THEN @ \cup {[file |-> pr.i, why |-> k]} ELSE @]
    /\ UNCHANGED prRest

\* Ok(extracted_docs)
PrOk ==
    /\ pr.pc = "pdfs" /\ pr.i > Len(pr.dir)
    /\ pr' = [pr EXCEPT !.pc = "returned", !.result = "ok"]
    /\ UNCHANGED prRest

\* the Err the ? operator returned, as run_sync takes it
PrErr ==
    /\ pr.pc = "err"
    /\ pr' = [pr EXCEPT !.pc = "returned", !.result = "err", !.docs = <<>>,
                        !.logged = @ \cup {[file |-> pr.i, why |-> "process_resources"]}]
    /\ UNCHANGED prRest

InitResources ==
    /\ FnOtherIdle
    /\ snip = SnipIdle /\ cfg = CfgIdle /\ ld = LdIdle /\ em = EmIdle /\ re = ReIdle /\ ss = SsIdle /\ hl = HlIdle
    /\ \E listing \in Listings : pr = PrStart(listing)

NextResources ==
    \/ PrUnzipSkip \/ PrUnzipOpen \/ PrUnzipEntry \/ PrUnzipDone
    \/ PrScan \/ PrPdf \/ PrOk \/ PrErr

SpecResources == InitResources /\ [][NextResources]_vars

\* C22: every file and directory the unpacking of an archive made lies in
\* the target directory of that archive or leads to it, and every entry
\* whose path leaves the target directory was refused
C22_NothingOutsideTarget ==
    pr.pc # "idle" =>
        \A w \in pr.written :
            IsPrefix(TargetDir(w.zip), w.path) \/ IsPrefix(w.path, TargetDir(w.zip))

\* an entry that leaves the target directory was refused, and the archive
\* it was in has put a file into the target directory
C22_Witness ==
    /\ pr.pc = "returned" /\ pr.result = "ok"
    /\ \E r \in pr.refused : r.escapes /\
          \E w \in pr.written : w.zip = r.zip /\ w.kind = "file"

\* C29: when process_resources has returned, every PDF of the subject
\* whose extraction succeeds is among the documents handed to the index,
\* whatever happened to the other files of the subject
C29_OtherPdfsReturned ==
    pr.pc = "returned" =>
        \A i \in 1..Len(pr.dir) :
            pr.dir[i] = "pdf" => \E j \in 1..Len(pr.docs) : pr.docs[j] = i

\* ---------------------------------------------------------------------
\* Config: the two config files, the credentials cached in them, and the
\* places of a sync that resolve the portal credentials.  A string is
\* the sequence of its bytes; a base64 character is its index in
\* ALPHABET and 64 is '='; an Option is a sequence of at most one value.
\* ---------------------------------------------------------------------

MaxCred == 1

ENCRYPTION_KEY ==
    <<80, 111, 108, 105, 82, 97, 103, 50, 48, 50, 54, 83, 101, 99, 114, 101,
      116, 75, 101, 121, 33, 64, 35, 36, 37>>

\* "A", "é" and "€" in UTF-8
CredChars == {<<65>>, <<195, 169>>, <<226, 130, 172>>}

RECURSIVE StringsUpTo(_)
StringsUpTo(n) ==
    IF n = 0 THEN {<<>>}
    ELSE LET shorter == StringsUpTo(n - 1)
         IN shorter \cup { s \o c : s \in shorter, c \in CredChars }

CredStrings == StringsUpTo(MaxCred)

RECURSIVE BitXor(_, _, _)
BitXor(a, b, bits) ==
    IF bits = 0 THEN 0
    ELSE (((a % 2) + (b % 2)) % 2) + 2 * BitXor(a \div 2, b \div 2, bits - 1)

\* bytes zipped with the cycled key, each pair xor-ed
XorKey(bytes) ==
    [i \in 1..Len(bytes) |->
        BitXor(bytes[i], ENCRYPTION_KEY[((i - 1) % Len(ENCRYPTION_KEY)) + 1], 8)]

RECURSIVE base64_encode(_)
base64_encode(data) ==
    IF data = <<>> THEN <<>>
    ELSE LET chunk == SubSeq(data, 1, Min(3, Len(data)))
             byte(i) == IF i <= Len(chunk) THEN chunk[i] ELSE 0
             n == byte(1) * 65536 + byte(2) * 256 + byte(3)
             padding == 3 - Len(chunk)
             idx(i) == (n \div (2 ^ (18 - 6 * i))) % 64
         IN [i \in 1..4 |-> IF i <= 4 - padding THEN idx(i - 1) ELSE 64]
                \o base64_encode(SubSeq(data, Len(chunk) + 1, Len(data)))

RECURSIVE TrimEndMatches(_, _)
TrimEndMatches(data, c) ==
    IF data # <<>> /\ data[Len(data)] = c
    THEN TrimEndMatches(SubSeq(data, 1, Len(data) - 1), c)
    ELSE data

RECURSIVE DecodeChunks(_)
DecodeChunks(bytes) ==
    IF bytes = <<>> THEN <<>>
    ELSE LET chunk == SubSeq(bytes, 1, Min(4, Len(bytes)))
             idx(i) == IF i <= Len(chunk) THEN chunk[i] ELSE 0
             n == idx(1) * 262144 + idx(2) * 4096 + idx(3) * 64 + idx(4)
             num_bytes == IF Len(chunk) = 4 THEN 3
                          ELSE IF Len(chunk) = 3 THEN 2
                          ELSE IF Len(chunk) = 2 THEN 1 ELSE 0
         IN [i \in 1..num_bytes |-> (n \div (2 ^ (16 - 8 * (i - 1)))) % 256]
                \o DecodeChunks(SubSeq(bytes, Len(chunk) + 1, Len(bytes)))

\* None when a character is not of the alphabet
base64_decode(data) ==
    LET bytes == TrimEndMatches(data, 64)
    IN IF \E i \in 1..Len(bytes) : bytes[i] \notin 0..63
       THEN <<>>
       ELSE <<DecodeChunks(bytes)>>

\* String::from_utf8 accepts the bytes (the sequences of one to three
\* bytes; the overlong and surrogate forms are not told apart)
RECURSIVE Utf8(_)
Utf8(bytes) ==
    IF bytes = <<>> THEN TRUE
    ELSE LET b == bytes[1]
             size == IF b < 128 THEN 1
                     ELSE IF b \in 194..223 THEN 2
                     ELSE IF b \in 224..239 THEN 3 ELSE 0
         IN /\ size > 0 /\ size <= Len(bytes)
            /\ \A i \in 2..size : bytes[i] \in 128..191
            /\ Utf8(SubSeq(bytes, size + 1, Len(bytes)))

encrypt(data) == base64_encode(XorKey(data))

decrypt(encrypted) ==
    LET bytes == base64_decode(encrypted)
    IN IF bytes = <<>> THEN <<>>
       ELSE IF Utf8(XorKey(bytes[1])) THEN <<XorKey(bytes[1])>> ELSE <<>>

DefaultConfig == [cached_credentials |-> <<>>]

EncryptedCredentials(u, p) == [username_encrypted |-> encrypt(u), pin_encrypted |-> encrypt(p)]

\* a config file: absent, not parsable, or holding a Config
NoConfigFile == [state |-> "absent", config |-> DefaultConfig]
BadConfigFile == [state |-> "malformed", config |-> DefaultConfig]
ConfigFile(config) == [state |-> "ok", config |-> config]

\* Config::load: the file in the home directory first
load(legacy, app) ==
    IF legacy.state = "ok" THEN legacy.config
    ELSE IF app.state = "ok" THEN app.config
    ELSE DefaultConfig

\* Config::save writes config_path(), the file of the data directory
save(config) == ConfigFile(config)

save_credentials(legacy, app, u, p) ==
    save([load(legacy, app) EXCEPT !.cached_credentials = <<EncryptedCredentials(u, p)>>])

clear_credentials(legacy, app) ==
    save([load(legacy, app) EXCEPT !.cached_credentials = <<>>])

get_credentials(legacy, app) ==
    LET enc == load(legacy, app).cached_credentials
    IN IF enc = <<>> THEN <<>>
       ELSE LET username == decrypt(enc[1].username_encrypted)
                pin == decrypt(enc[1].pin_encrypted)
            IN IF username = <<>> \/ pin = <<>> THEN <<>>
               ELSE << <<username[1], pin[1]>> >>

\* option.or(other)
OrElse(first, other) == IF first # <<>> THEN first ELSE other

NoResolution == [site |-> "none", cached |-> <<>>, env |-> <<>>, chosen |-> <<>>]

Resolution(site, cached, env, chosen) ==
    [site |-> site, cached |-> cached, env |-> env, chosen |-> chosen]

LegacyFiles ==
    { NoConfigFile, BadConfigFile, ConfigFile(DefaultConfig),
      ConfigFile([cached_credentials |-> <<EncryptedCredentials(<<65>>, <<195, 169>>)>>]) }

EnvCreds == { <<>>, << <<(<<226, 130, 172>>), <<65>>>> >> }

CfgStart(legacy, app, env) ==
    [pc |-> "none", legacy |-> legacy, app |-> app, env |-> env,
     last |-> "none", saved |-> <<>>, creds |-> <<>>, res |-> NoResolution,
     enumerated |-> FALSE]

\* Config::save_credentials(u, p), as the login screen calls it
CfgSaveCredentials ==
    /\ cfg.pc = "none"
    /\ \E u \in CredStrings, p \in CredStrings :
          cfg' = [cfg EXCEPT !.app = save_credentials(cfg.legacy, cfg.app, u, p),
                             !.last = "save", !.saved = << <<u, p>> >>]
    /\ UNCHANGED cfgRest

\* Config::clear_credentials()
CfgClearCredentials ==
    /\ cfg.pc = "none"
    /\ cfg' = [cfg EXCEPT !.app = clear_credentials(cfg.legacy, cfg.app),
                          !.last = "clear", !.saved = <<>>]
    /\ UNCHANGED cfgRest

\* run_sync: check_connection, and the credentials when it says no
CfgRunSync ==
    /\ cfg.pc = "none"
    /\ \E connected \in BOOLEAN :
          LET cached_creds == get_credentials(cfg.legacy, cfg.app)
              chosen == OrElse(cached_creds, cfg.env)
          IN cfg' = IF connected
                    THEN [cfg EXCEPT !.pc = "subjects", !.last = "sync"]
                    ELSE [cfg EXCEPT !.pc = IF chosen = <<>> THEN "bailed" ELSE "login",
                                     !.last = "sync",
                                     !.creds = chosen,
                                     !.res = Resolution("run_sync", cached_creds, cfg.env, chosen)]
    /\ UNCHANGED cfgRest

\* login_headless returned: Ok saves the credentials, Err clears them
CfgLogin ==
    /\ cfg.pc = "login"
    /\ \E ok \in BOOLEAN :
          cfg' = IF ok
                 THEN [cfg EXCEPT !.pc = "subjects",
                                  !.app = save_credentials(cfg.legacy, cfg.app,
                                                           cfg.creds[1][1], cfg.creds[1][2])]
                 ELSE [cfg EXCEPT !.pc = "bailed", !.last = "login_failed",
                                  !.app = clear_credentials(cfg.legacy, cfg.app)]
    /\ UNCHANGED cfgRest

\* get_subjects: the credentials when the portal asks for a login
CfgGetSubjects ==
    /\ cfg.pc = "subjects"
    /\ \E login_required \in BOOLEAN :
          LET cached_creds == get_credentials(cfg.legacy, cfg.app)
              chosen == IF cfg.env # <<>> THEN cfg.env ELSE cached_creds
          IN cfg' = [cfg EXCEPT !.pc = "scrape", !.enumerated = TRUE,
                                !.res = IF login_required
                                        THEN Resolution("get_subjects", cached_creds, cfg.env, chosen)
                                        ELSE @]
    /\ UNCHANGED cfgRest

\* scrape_subject_content: the credentials kept for the re-authentication
CfgScrapeContent ==
    /\ cfg.pc = "scrape"
    /\ LET cached_creds == get_credentials(cfg.legacy, cfg.app)
           chosen == OrElse(cached_creds, cfg.env)
       IN cfg' = [cfg EXCEPT !.pc = "done",
                             !.res = Resolution("scrape_subject_content", cached_creds, cfg.env, chosen)]
    /\ UNCHANGED cfgRest

\* run_sync has returned
CfgSyncReturn ==
    /\ cfg.pc \in {"done", "bailed"}
    /\ cfg' = [cfg EXCEPT !.pc = "none", !.last = "none", !.creds = <<>>,
                          !.res = NoResolution, !.enumerated = FALSE]
    /\ UNCHANGED cfgRest

InitConfig ==
    /\ FnOtherIdle
    /\ snip = SnipIdle /\ pr = PrIdle /\ ld = LdIdle /\ em = EmIdle /\ re = ReIdle /\ ss = SsIdle /\ hl = HlIdle
    /\ \E legacy \in LegacyFiles, app \in {NoConfigFile, BadConfigFile}, env \in EnvCreds :
          cfg = CfgStart(legacy, app, env)

NextConfig ==
    \/ CfgSaveCredentials \/ CfgClearCredentials
    \/ CfgRunSync \/ CfgLogin \/ CfgGetSubjects \/ CfgScrapeContent \/ CfgSyncReturn

SpecConfig == InitConfig /\ [][NextConfig]_vars

\* C23: right after save_credentials(u, p), get_credentials() is (u, p),
\* and right after clear_credentials() a load finds no cached credentials
C23_RoundTrip ==
    /\ cfg.pc # "idle" /\ cfg.last = "save"
          => get_credentials(cfg.legacy, cfg.app) = cfg.saved
    /\ cfg.pc # "idle" /\ cfg.last = "clear"
          => load(cfg.legacy, cfg.app).cached_credentials = <<>>

\* C24: when the login of a sync has failed, get_credentials() is none
\* and the sync has ended without enumerating the subjects
C24_LoginFailedClears ==
    (cfg.pc = "bailed" /\ cfg.last = "login_failed")
        => /\ get_credentials(cfg.legacy, cfg.app) = <<>>
           /\ ~cfg.enumerated

\* C25: wherever a sync resolves the credentials, the cached ones are
\* chosen when there are cached ones
C25_CachedFirst ==
    (cfg.pc # "idle" /\ cfg.res.site # "none" /\ cfg.res.cached # <<>>)
        => cfg.res.chosen = cfg.res.cached

\* ---------------------------------------------------------------------
\* The constructors of the two stores, on what they may find on disk: no
\* file, a file that decodes, a file that does not; and, for the HNSW
\* store, the dumped graph next to the .data file.
\* ---------------------------------------------------------------------

MaxStored == 2

\* the Vec<Document> a file may hold
StoredSeqs == SeqsUpTo(DocPool, MaxStored)

\* a file cut short: the bytes of a save without the last of them
CutShort(b) == SubSeq(b, 1, Len(b) - 1)

LinFiles ==
    {NoFile} \cup { File(EncodeIndex(docs)) : docs \in StoredSeqs }
             \cup { File(CutShort(EncodeIndex(docs))) : docs \in StoredSeqs }

DataFiles ==
    {NoFile} \cup { File(EncodeStored(docs, Len(docs))) : docs \in StoredSeqs }
             \cup { File(CutShort(EncodeStored(docs, Len(docs)))) : docs \in StoredSeqs }

GraphFiles == {"absent", "unreadable", "ok"}

NewOk(n) == [ok |-> TRUE, count |-> n]
NewErr == [ok |-> FALSE, count |-> 0]

\* LinearVectorStore::new(storage_path)
LinNewCall ==
    /\ ld.pc = "call" /\ ld.backend = "linear"
    /\ ld' = [ld EXCEPT !.pc = "returned",
                        !.result = NewOk(Len(LoadIndexOrDefault(ld.data)))]
    /\ UNCHANGED ldRest

\* HnswVectorStore::new(storage_path)
HnswNewCall ==
    /\ ld.pc = "call" /\ ld.backend = "hnsw"
    /\ LET data == DecodeStored(ld.data.bytes)
       IN ld' = [ld EXCEPT !.pc = "returned",
                           !.result = IF ~ld.data.exists THEN NewOk(0)
                                      ELSE IF ld.graph # "ok" THEN NewErr
                                      ELSE IF ~data.ok THEN NewErr
                                      ELSE NewOk(Cardinality(DOMAIN data.documents))]
    /\ UNCHANGED ldRest

InitLoad ==
    /\ FnOtherIdle
    /\ snip = SnipIdle /\ pr = PrIdle /\ cfg = CfgIdle /\ em = EmIdle /\ re = ReIdle /\ ss = SsIdle /\ hl = HlIdle
    /\ \/ \E f \in LinFiles :
             ld = [pc |-> "call", backend |-> "linear", data |-> f, graph |-> "absent",
                   result |-> NewErr]
       \/ \E f \in DataFiles, g \in GraphFiles :
             ld = [pc |-> "call", backend |-> "hnsw", data |-> f, graph |-> g,
                   result |-> NewErr]

NextLoad == LinNewCall \/ HnswNewCall

SpecLoad == InitLoad /\ [][NextLoad]_vars

\* the file of the index is there and does not decode
Malformed ==
    /\ ld.data.exists
    /\ IF ld.backend = "linear" THEN ~DecodeIndex(ld.data.bytes).ok
                                ELSE ~DecodeStored(ld.data.bytes).ok

\* C26: with a malformed index file, or with the graph of the HNSW store
\* missing or unreadable next to its data file, new returns a store, and
\* the store is empty
C26_StartsEmpty ==
    (/\ ld.pc = "returned"
     /\ Malformed \/ (ld.backend = "hnsw" /\ ld.data.exists /\ ld.graph # "ok"))
        => ld.result = NewOk(0)

\* ---------------------------------------------------------------------
\* EmbeddingModel::embed as RagSystem::add_document calls it, one chunk
\* and one inference at a time.  A text is the sequence of its
\* characters; MAX_CHUNK_CHARS is scaled down.
\* ---------------------------------------------------------------------

MaxText == 4
MaxChunkChars == 2

TextChars == {"a", " ", "\n"}

EmbedTexts == SeqsUpTo(TextChars, MaxText)

\* text.replace("\n", " ")
ReplaceNewlines(text) == [i \in 1..Len(text) |-> IF text[i] = "\n" THEN " " ELSE text[i]]

\* the loop of chunk_text over the words, then the last chunk
RECURSIVE ChunkWords(_, _, _)
ChunkWords(words, current_chunk, chunks) ==
    IF words = <<>>
    THEN IF current_chunk # <<>> THEN Append(chunks, Trim(current_chunk)) ELSE chunks
    ELSE LET word == Head(words)
             full == Len(current_chunk) + Len(word) + 1 > MaxChunkChars
             flushed == full /\ current_chunk # <<>>
             kept == IF flushed THEN <<>> ELSE current_chunk
         IN ChunkWords(Tail(words),
                       (IF kept # <<>> THEN Append(kept, " ") ELSE kept) \o word,
                       IF flushed THEN Append(chunks, Trim(current_chunk)) ELSE chunks)

chunk_text(text) == ChunkWords(SplitWhitespace(text, <<>>), <<>>, <<>>)

\* the chunks embed makes of its input
EmbedChunks(text) ==
    LET replaced == ReplaceNewlines(text)
    IN IF Len(replaced) <= MaxChunkChars THEN <<replaced>> ELSE chunk_text(replaced)

EmStart(content) ==
    [pc |-> "embed", content |-> content, chunks |-> <<>>, k |-> 0,
     inferences |-> 0, result |-> "none", stored |-> <<>>]

\* embed: the chunks, and the bail when there is none
EmbedBegin ==
    /\ em.pc = "embed"
    /\ LET chunks == EmbedChunks(em.content)
       IN em' = IF chunks = <<>>
                THEN [em EXCEPT !.pc = "returned", !.result = "err"]
                ELSE [em EXCEPT !.pc = "chunks", !.chunks = chunks, !.k = 1]
    /\ UNCHANGED emRest

\* one turn of for chunk in chunks: the inference on the blocking pool
EmbedInference ==
    /\ em.pc = "chunks" /\ em.k <= Len(em.chunks)
    /\ \E ok \in BOOLEAN :
          em' = IF ok
                THEN [em EXCEPT !.k = @ + 1, !.inferences = @ + 1]
                ELSE [em EXCEPT !.pc = "returned", !.result = "err", !.inferences = @ + 1]
    /\ UNCHANGED emRest

\* embed returned Ok: add_document pushes the document and saves
EmbedAddDocument ==
    /\ em.pc = "chunks" /\ em.k > Len(em.chunks)
    /\ em' = [em EXCEPT !.pc = "returned", !.result = "ok",
                        !.stored = Append(@, em.content)]
    /\ UNCHANGED emRest

InitEmbed ==
    /\ FnOtherIdle
    /\ snip = SnipIdle /\ pr = PrIdle /\ cfg = CfgIdle /\ ld = LdIdle /\ re = ReIdle /\ ss = SsIdle /\ hl = HlIdle
    /\ \E content \in EmbedTexts : em = EmStart(content)

NextEmbed == EmbedBegin \/ EmbedInference \/ EmbedAddDocument

SpecEmbed == InitEmbed /\ [][NextEmbed]_vars

\* C27: add_document with an empty content ends with the error of embed,
\* no inference was run and no document was stored
C27_EmptyInputFails ==
    (em.pc = "returned" /\ em.content = <<>>)
        => em.result = "err" /\ em.inferences = 0 /\ em.stored = <<>>

\* ---------------------------------------------------------------------
\* RagSystem::reembed_all run alone, one turn of its loop at a time, on
\* an index whose documents have distinct ids (add_document keeps them
\* distinct).
\* ---------------------------------------------------------------------

MaxReembed == 2

ReembedPool == DocPool \cup { Doc(<<"c">>, <<"gamma">>, <<0, 1>>, {<<"type", "subject">>}, "user") }

ReembedIndexes ==
    { docs \in SeqsUpTo(ReembedPool, MaxReembed) :
        \A i, j \in 1..Len(docs) : i # j => docs[i].id # docs[j].id }

\* what the snapshot keeps of a document
DocData(d) == [id |-> d.id, content |-> d.content, user_id |-> d.user_id, metadata |-> d.metadata]

Progress(current, total, d) == [current |-> current, total |-> total, id |-> d.id, metadata |-> d.metadata]

\* a plausible slip: push without the retain
ReembeddedNoRetain(docs, d, embedding) ==
    Append(docs, Doc(d.id, d.content, embedding, d.metadata, d.user_id))

\* the Ok arm: the document rebuilt from the snapshot, retain and push
Reembedded(docs, d, embedding) ==
    Append(Retain(docs, d.id), Doc(d.id, d.content, embedding, d.metadata, d.user_id))

ReStart(docs) ==
    [pc |-> "call", docs |-> docs, disk |-> RagSaved(docs), before |-> docs,
     docs_data |-> <<>>, i |-> 0, progress |-> <<>>, failed |-> {}, reembedded |-> 0]

\* docs_data: the snapshot taken under the lock
ReSnapshot ==
    /\ re.pc = "call"
    /\ re' = [re EXCEPT !.pc = "loop",
                        !.docs_data = [k \in 1..Len(re.docs) |-> DocData(re.docs[k])]]
    /\ UNCHANGED reRest

\* one turn of the loop: progress_fn, embed, and the arm of its result
ReDocument ==
    /\ re.pc = "loop" /\ re.i < Len(re.docs_data)
    /\ \E ok \in BOOLEAN :
          LET d == re.docs_data[re.i + 1]
              called == Append(re.progress, Progress(re.i + 1, Len(re.docs_data), d))
          IN re' = IF ok
                   THEN [re EXCEPT !.i = @ + 1, !.progress = called,
                                   !.docs = Reembedded(@, d, embed(d.content)),
                                   !.reembedded = @ + 1]
                   ELSE [re EXCEPT !.i = @ + 1, !.progress = called,
                                   !.failed = @ \cup {d.id}]
    /\ UNCHANGED reRest

\* save_internal at the end, and Ok(reembedded)
ReSave ==
    /\ re.pc = "loop" /\ re.i = Len(re.docs_data)
    /\ re' = [re EXCEPT !.pc = "returned", !.disk = RagSaved(re.docs)]
    /\ UNCHANGED reRest

InitReembed ==
    /\ FnOtherIdle
    /\ snip = SnipIdle /\ pr = PrIdle /\ cfg = CfgIdle /\ ld = LdIdle /\ em = EmIdle /\ ss = SsIdle /\ hl = HlIdle
    /\ \E docs \in ReembedIndexes : re = ReStart(docs)

NextReembed == ReSnapshot \/ ReDocument \/ ReSave

SpecReembed == InitReembed /\ [][NextReembed]_vars

\* C28: when reembed_all has returned, the index holds one document for
\* each document it held before, with the same id, content, metadata and
\* user_id; the document is the old record when its embedding failed and
\* carries the new embedding otherwise; progress_fn was called once for
\* each document, with current = 1..total in the order of the index; and
\* the file holds the index
C28_OnlyEmbeddingsChange ==
    re.pc = "returned" =>
        /\ Len(re.docs) = Len(re.before)
        /\ \A k \in 1..Len(re.before) :
              LET old == re.before[k]
              IN \E n \in 1..Len(re.docs) :
                    /\ DocData(re.docs[n]) = DocData(old)
                    /\ IF old.id \in re.failed
                       THEN re.docs[n] = old
                       ELSE re.docs[n].embedding = embed(old.content)
        /\ re.progress = [k \in 1..Len(re.before) |-> Progress(k, Len(re.before), re.before[k])]
        /\ re.reembedded + Cardinality(re.failed) = Len(re.before)
        /\ re.disk = RagSaved(re.docs)

\* the embedding of the first document failed, the second document got a
\* new embedding, and reembed_all has returned
C28_Witness ==
    /\ re.pc = "returned"
    /\ Len(re.before) >= 2
    /\ re.before[1].id \in re.failed
    /\ re.before[2].id \notin re.failed
    /\ \E n \in 1..Len(re.docs) :
          re.docs[n].id = re.before[2].id /\ re.docs[n].embedding # re.before[2].embedding

\* ---------------------------------------------------------------------
\* The ids of the PDF documents a full sync leaves, checked under SpecSync
\* ---------------------------------------------------------------------

\* the document was indexed as a PDF
IsPdfDoc(d) == <<"type", "pdf">> \in d.metadata

\* C30: after a completed full sync every PDF document of the index has a
\* chunk id <subject_id>/<rel_path>#<i>, and none sits at a base id
C30_FullSyncPdfsChunked ==
    (sync.kind = "full" /\ sync.pc = "done") =>
        \A n \in 1..Len(ragDocs) :
            IsPdfDoc(ragDocs[n]) =>
                /\ \E pdf \in ChunkedPdfs : \E i \in 0..(pdf.n - 1) : ragDocs[n].id = ChunkId(pdf.base, i)
                /\ \A pdf \in ChunkedPdfs : ragDocs[n].id # pdf.base

\* ---------------------------------------------------------------------
\* The window extract_relevant_snippet settles on, checked under
\* SpecSnippet
\* ---------------------------------------------------------------------

SnipWords == SplitWhitespace(snip.content, <<>>)

\* the starts of all the windows of the content: 0 .. len - window_size,
\* and 0 alone when the content has at most window_size words
AllWindows == 0..(IF Len(SnipWords) > WindowSize THEN Len(SnipWords) - WindowSize ELSE 0)

WindowAt(i) == Lower(Join(SubSeq(SnipWords, i + 1, Min(Len(SnipWords), i + WindowSize))))

\* the number of different query words in the window
DistinctScore(window, query_words) ==
    Cardinality({ query_words[k] : k \in { n \in 1..Len(query_words) : Contains(window, query_words[n]) } })

\* C31: the position the function settles on is the start of the earliest
\* window with the highest score among all the windows of the content
C31_EarliestBestWindow ==
    snip.pc = "returned" =>
        \E i \in AllWindows :
            /\ \A j \in AllWindows :
                  LET si == Score(WindowAt(i), snip.query_words)
                      sj == Score(WindowAt(j), snip.query_words)
                  IN sj < si \/ (sj = si /\ i <= j)
            /\ BestPos(SnipWords, snip.query_words, 0, 0, 0) = CharPos(SnipWords, i)

\* C32: the score of every window is the number of different query words
\* it contains
C32_DistinctWords ==
    snip.pc = "returned" =>
        \A i \in AllWindows :
            Score(WindowAt(i), snip.query_words) = DistinctScore(WindowAt(i), snip.query_words)

\* ---------------------------------------------------------------------
\* RagSystem::search_snippets on an index of documents with and without
\* the type and filename keys.  A source label is a sequence: the id, or
\* the filename alone.
\* ---------------------------------------------------------------------

MaxHits == 2

SnippetPool ==
    { Doc(<<"s">>, <<"a", " ", "A">>, <<3, 4>>, {<<"type", "subject">>, <<"filename", "s.pdf">>}, "user"),
      Doc(<<"p">>, <<"A", " ", "é">>, <<0, 1>>, Meta("pdf", "p.pdf"), "user"),
      Doc(<<"q">>, <<"a", " ", "A">>, <<1, 0>>, {<<"type", "pdf">>}, "user"),
      Doc(<<"n">>, <<"a", " ", "A">>, <<3, 4>>, {<<"filename", "n.pdf">>}, "user"),
      Doc(<<"e">>, <<"A", " ", "é">>, <<0, 0>>, {}, "user"),
      Doc(<<"o">>, <<"a", " ", "A">>, <<3, 4>>, Meta("pdf", "o.pdf"), "other") }

SnippetIndexes ==
    { docs \in SeqsUpTo(SnippetPool, MaxHits) :
        \A i, j \in 1..Len(docs) : i # j => docs[i].id # docs[j].id }

SnippetQueries == { <<"a">>, <<"A", " ", " ", "é">> }

\* HashMap::get: the value under the key, if there is one
MetaGet(metadata, key) ==
    IF \E kv \in metadata : kv[1] = key
    THEN <<(CHOOSE kv \in metadata : kv[1] = key)[2]>>
    ELSE <<>>

\* the source of a hit
SourceLabel(doc) ==
    LET type == MetaGet(doc.metadata, "type")
        filename == MetaGet(doc.metadata, "filename")
    IN IF type = <<>> THEN doc.id
       ELSE IF type[1] = "subject" THEN doc.id
       ELSE IF filename # <<>> THEN filename ELSE doc.id

\* the (source, snippet, score) entries of search_snippets
search_snippets(docs, query, user_id, top_k) ==
    LET scores == RagSnippetHits(docs, embed(query), user_id, top_k)
        query_words == SplitWhitespace(Lower(query), <<>>)
    IN [i \in 1..Len(scores) |->
           [source |-> SourceLabel(scores[i].doc),
            snippet |-> extract_relevant_snippet(scores[i].doc.content, query_words),
            score |-> scores[i].score]]

SearchSnippetsCall ==
    /\ ss.pc = "call"
    /\ ss' = [ss EXCEPT !.pc = "returned",
                        !.out = search_snippets(ss.docs, ss.query, ss.user_id, ss.top_k)]
    /\ UNCHANGED ssRest

InitSnippets ==
    /\ FnOtherIdle
    /\ snip = SnipIdle /\ pr = PrIdle /\ cfg = CfgIdle /\ ld = LdIdle /\ em = EmIdle /\ re = ReIdle /\ hl = HlIdle
    /\ \E docs \in SnippetIndexes, query \in SnippetQueries, user_id \in Users, top_k \in 0..MaxHits :
          ss = [pc |-> "call", docs |-> docs, query |-> query, user_id |-> user_id,
                top_k |-> top_k, out |-> <<>>]

NextSnippets == SearchSnippetsCall

SpecSnippets == InitSnippets /\ [][NextSnippets]_vars

\* the label the hit is to carry: the id for a subject, otherwise the
\* filename when there is one, otherwise the id
LabelOf(doc) ==
    IF <<"type", "subject">> \in doc.metadata THEN doc.id
    ELSE IF MetaGet(doc.metadata, "filename") # <<>> THEN MetaGet(doc.metadata, "filename")
    ELSE doc.id

\* C33: search_snippets returns at most top_k entries, each with a score
\* of at least 0.3, sorted by score descending, each labelled with the id
\* for a subject, else with the filename when there is one, else the id
C33_SnippetsLabelled ==
    ss.pc = "returned" =>
        LET scores == RagSnippetHits(ss.docs, embed(ss.query), ss.user_id, ss.top_k)
        IN /\ Len(ss.out) <= ss.top_k
           /\ \A i \in 1..Len(ss.out) : ss.out[i].score >= 30
           /\ \A i \in 1..(Len(ss.out) - 1) : ss.out[i].score >= ss.out[i + 1].score
           /\ Len(ss.out) = Len(scores)
           /\ \A i \in 1..Len(ss.out) : ss.out[i].source = LabelOf(scores[i].doc)

-----------------------------------------------------------------------------
\* the contents of the deltas of the data lines handled so far that are
\* present and not the empty string, in order
RECURSIVE NonEmptyDeltas(_)
NonEmptyDeltas(datas) ==
    IF datas = <<>> THEN <<>>
    ELSE LET content == DeltaContent(Head(datas))
         IN (IF content # <<>> /\ content[1] # "" THEN content ELSE <<>>)
            \o NonEmptyDeltas(Tail(datas))

\* C34: chat_stream emits a Content event only for a non-empty content
\* delta: a data line whose delta content is the empty string produces no
\* event, every data line with a non-empty delta produces exactly one
C34_ContentOnlyNonEmpty ==
    [i \in 1..Len(sse.out) |-> sse.out[i].v] = NonEmptyDeltas(sse.seen)

-----------------------------------------------------------------------------
\* C35: run_sync and scan_local_data derive the same subject id, hence the
\* same document ids, for the same PDF of the same subject: a local rescan
\* that follows a completed incremental sync finds the sentinel of every
\* PDF and makes no add_document call for a PDF
C35_SameSubjectId ==
    (sync.kind = "rescan" /\ hist.prev = [kind |-> "incremental", ok |-> TRUE])
        => hist.pdfAdds = 0

\* C36: after a sequence of completed full syncs, incremental syncs and
\* local rescans over the same scraped files no PDF is represented twice:
\* the store never holds both an unchunked document at a base id and a
\* chunk document <base>#<i> of the same file
C36_NoPdfTwice ==
    (sync.pc = "done" /\ (hist.runs = 1 \/ (hist.runs = 2 /\ hist.prev.ok)))
        => \A pdf \in ChunkedPdfs :
               ~(/\ RagContains(ragDocs, pdf.base)
                 /\ \E i \in 0..(pdf.n - 1) : RagContains(ragDocs, ChunkId(pdf.base, i)))

-----------------------------------------------------------------------------
\* C37: at most one chat request is in flight: while the chat task has
\* sent neither StreamDone nor an Error of its own, is_thinking stays true,
\* so that Enter starts no second request, whatever the key presses and the
\* results of the model-list fetch that shares the LLM channel
C37_OneChatInFlight ==
    LET p == prod["chat"]
    IN (/\ p.pc = "send"
        /\ \A i \in 1..Min(p.i - 1, Len(p.work)) : p.work[i].t \in {"Content", "Usage"})
           => ui.is_thinking

-----------------------------------------------------------------------------
\* The chat task and the fetch task are tokio tasks that run to their end,
\* and run_app polls the LLM channel on every turn of its loop: each of the
\* three keeps taking its step while it can.  Key presses are not forced.
SpecStreamLive ==
    SpecStream /\ WF_vars(ChatSend) /\ WF_vars(ModelsSend) /\ WF_vars(RecvLlm)

\* C38: every busy flag a background task sets is eventually reset when the
\* task finishes, with success or with failure: models_loading, is_thinking,
\* sync_running and reembed_running
C38_BusyFlagsReset ==
    /\ ui.models_loading ~> ~ui.models_loading
    /\ ui.is_thinking ~> ~ui.is_thinking
    /\ ui.sync_running ~> ~ui.sync_running
    /\ ui.reembed_running ~> ~ui.reembed_running

-----------------------------------------------------------------------------
\* C39: in the HNSW backend, after add_document calls that overwrite, a
\* search result never holds the same document id twice, and the similarity
\* reported with a document is that of its current embedding, not of an
\* overwritten one whose graph point lingers
C39_NoStaleGraphPoint ==
    (obs.op = "search" /\ backend = "hnsw")
        => /\ \A i, j \in 1..Len(obs.res) : i # j => obs.res[i].doc.id # obs.res[j].doc.id
           /\ \A i \in 1..Len(obs.res) :
                 obs.res[i].score = cosine_similarity(obs.q, obs.res[i].doc.embedding)

-----------------------------------------------------------------------------
(* HnswVectorStore::clear step by step, next to new, add_document and      *)
(* save.  The four fields of the store are RwLocks; clear takes &mut self, *)
(* so no other call runs while it does.                                    *)

StoreLocks == {"hnsw", "documents", "id_map", "next_id"}

\* clear: drop(hnsw); drop(documents); drop(next_id)
ClearDropped == {"hnsw", "documents", "next_id"}

\* save: self.hnsw.read(), self.documents.read(), self.next_id.read()
SaveLocks == {"hnsw", "documents", "next_id"}

hnswRest == <<backend, linDocs, linDisk, ragVars, syncVars, concVars, chanVars, scrape, sse,
              snip, pr, cfg, ld, em, re, ss>>

\* clear: the four write guards are taken
HnswClearLock ==
    /\ backend = "hnsw" /\ hl.pc = "idle"
    /\ hl' = [hl EXCEPT !.pc = "locked", !.held = StoreLocks]
    /\ UNCHANGED <<hDocs, hIdMap, hNextId, hGraph, hDisk, obs, hnswRest>>

\* clear: a new graph, documents.clear(), id_map.clear(), *next_id = 0
HnswClearReset ==
    /\ hl.pc = "locked"
    /\ hGraph' = <<>>
    /\ hDocs' = <<>>
    /\ hIdMap' = <<>>
    /\ hNextId' = 0
    /\ hl' = [hl EXCEPT !.pc = "reset"]
    /\ UNCHANGED <<hDisk, obs, hnswRest>>

\* clear: the guards it drops before the call of save
HnswClearDrop ==
    /\ hl.pc = "reset"
    /\ hl' = [hl EXCEPT !.pc = "save", !.held = @ \ ClearDropped]
    /\ UNCHANGED <<hDocs, hIdMap, hNextId, hGraph, hDisk, obs, hnswRest>>

\* clear: self.save(), which waits for a lock that is write-held; the
\* remaining guard goes when clear returns
HnswClearSave ==
    /\ hl.pc = "save"
    /\ hl.held \cap SaveLocks = {}
    /\ hDisk' = HnswSaved(hGraph, hDocs, hNextId)
    /\ obs' = Obs("clear", <<>>, FALSE, HnswCount, "", <<>>, <<>>)
    /\ hl' = [hl EXCEPT !.pc = "idle", !.held = {}, !.done = TRUE]
    /\ UNCHANGED <<hDocs, hIdMap, hNextId, hGraph, hnswRest>>

InitHnsw ==
    /\ backend = "hnsw"
    /\ StoreEmpty
    /\ ragDocs = <<>> /\ ragDisk = NoFile
    /\ SyncIdle
    /\ ConcIdle
    /\ ExtIdle

NextHnsw ==
    \/ (hl.pc = "idle" /\ \E d \in DocPool : HnswAddDocument(d))
    \/ (hl.pc = "idle" /\ HnswSave)
    \/ (hl.pc = "idle" /\ HnswNew)
    \/ HnswClearLock
    \/ HnswClearReset
    \/ HnswClearDrop
    \/ HnswClearSave

SpecHnsw == InitHnsw /\ [][NextHnsw]_vars

\* C40: in the HNSW backend, after any sequence of new, add_document, clear
\* and save/load, id_map maps an external id e to n exactly when
\* documents[n].id = e (so it is injective), next_id is greater than every
\* internal id in use, and clear holds none of the locks save acquires when
\* it calls save
C40_IdMapConsistent ==
    /\ \A e \in DOMAIN hIdMap : hIdMap[e] \in DOMAIN hDocs /\ hDocs[hIdMap[e]].id = e
    /\ \A n \in DOMAIN hDocs : hDocs[n].id \in DOMAIN hIdMap /\ hIdMap[hDocs[n].id] = n
    /\ \A e, f \in DOMAIN hIdMap : hIdMap[e] = hIdMap[f] => e = f
    /\ \A n \in DOMAIN hDocs : n < hNextId
    /\ hl.pc = "save" => hl.held \cap SaveLocks = {}

\* an overwrite in a store that was cleared and then loaded from its files
C40_Witness ==
    /\ obs.op = "add" /\ obs.had
    /\ hl.done /\ hl.pc = "idle"
    /\ hDisk.exists /\ hDisk.graph # <<>>
    /\ HnswCount = 1 /\ hNextId = 1

====
